---- MODULE Spec2Model ----
(***************************************************************************)
(* Board-game recommender backend: the ranking core (recommender, scorer,  *)
(* pipeline), the recommendation service with its HTTP status mapping, the *)
(* play-context candidate query and the recommendation store.              *)
(*                                                                         *)
(* Numbers.  Embedding vectors are 2-wide integer vectors.  A cosine is    *)
(* kept in fixed point, as thousandths rounded toward zero, so scores are  *)
(* integers in -1000..1000.  A mean of vectors is kept as their sum: every *)
(* use of a mean in the code is a cosine, which the factor 1/L leaves      *)
(* unchanged, and the mean is the zero vector exactly when the sum is.     *)
(***************************************************************************)
EXTENDS Integers, Sequences, FiniteSets, TLC

VARIABLES
    embedding,        \* the loaded embedding run: NoEmbedding, or its rows in file order
    catalog,          \* boardgames table: id -> record, or NoGame
    recommendations,  \* recommendations table: stored id -> RecommendationRecord
    result,           \* what the last operation returned to its caller
    bgg,              \* BGG_ACCESS_TOKEN, BGG_FETCH_ENABLED and the cached metadata rows
    pool,             \* the thread pool of a save that is fetching metadata
    embeddings_dir,   \* the entries of the embeddings directory, in iterdir order
    participants,     \* participants table: the ids that exist
    session,          \* the client's session cookie and what it carries
    _EMBEDDING_CACHE, \* the module's cache of loaded runs: run id -> Embeddings object
    loaders,          \* the request threads inside load_embedding and where each stands
    clock             \* the UTC wall clock of the training host, in seconds

vars == <<embedding, catalog, recommendations, result, bgg, pool, embeddings_dir,
          participants, session, _EMBEDDING_CACHE, loaders, clock>>

\* the variables outside the recommendation core, its service and its store
enrichVars == <<bgg, pool>>
authVars == <<participants, session>>
loadVars == <<_EMBEDDING_CACHE, loaders, clock>>

----------------------------------------------------------------------------
(* Bounds of the model.                                                    *)

MaxLiked == 2      \* longest liked_games list a caller passes
MaxResults == 2    \* largest num_results a caller asks for

GameIds == {1, 2, 3}

\* Sample embedding vectors: an axis, a diagonal and the zero row.
Vecs == {<<1, 0>>, <<1, 1>>, <<0, 0>>}


----------------------------------------------------------------------------
(* Sequences as Python lists.                                              *)

Min(a, b) == IF a <= b THEN a ELSE b
Max(a, b) == IF a >= b THEN a ELSE b

\* s[:n]
PySliceTo_one_more(s, n) == SubSeq(s, 1, Min(n + 1, Len(s)))

PySliceTo(s, n) ==
    IF n >= 0 THEN SubSeq(s, 1, Min(n, Len(s)))
    ELSE SubSeq(s, 1, Max(0, Len(s) + n))

Range(s) == {s[i] : i \in 1..Len(s)}

\* All sequences over S of length at most n.
SeqsUpTo(S, n) == UNION {[1..k -> S] : k \in 0..n}

IsInjective(s) == \A i, j \in 1..Len(s) : s[i] = s[j] => i = j

\* sorted(items, key=lambda item: item.score, reverse=True): a stable sort, so
\* items of equal score keep the order they had in the input.
RECURSIVE InsertByScoreDesc(_, _)
InsertByScoreDesc(sorted, x) ==
    IF sorted = << >> THEN <<x>>
    ELSE IF Head(sorted).score >= x.score
         THEN <<Head(sorted)>> \o InsertByScoreDesc(Tail(sorted), x)
         ELSE <<x>> \o sorted

RECURSIVE SortedByScoreDesc(_)
SortedByScoreDesc(items) ==
    IF items = << >> THEN << >>
    ELSE InsertByScoreDesc(SortedByScoreDesc(SubSeq(items, 1, Len(items) - 1)),
                           items[Len(items)])

----------------------------------------------------------------------------
(* Optional values: None is the empty tuple, a present value x is <<x>>.   *)

NoneValue == << >>
Some(x) == <<x>>

\* The boardgame_bgg_metadata table with no row, and the metadata_map of a
\* save that fetched nothing.
NoCache == [g \in {} |-> NoneValue]
NoMetadataMap == [g \in {} |-> NoneValue]

\* No access token: no live fetch, nothing cached.  No save in progress.
BggOff == [access_token |-> FALSE, fetch_enabled |-> TRUE, cache |-> NoCache]
IdlePool == [phase |-> "idle"]

\* No session cookie set.
NoSession == [session_id |-> NoneValue, participant_id |-> NoneValue]

\* No run is cached, no thread is loading one, the clock is not looked at.
\* Nothing is being enriched, no run directory is looked at, no client has a
\* session.
Unloaded ==
    /\ _EMBEDDING_CACHE = << >>
    /\ loaders = << >>
    /\ clock = 0

Quiet ==
    /\ bgg = BggOff
    /\ pool = IdlePool
    /\ embeddings_dir = << >>
    /\ session = NoSession
    /\ Unloaded

----------------------------------------------------------------------------
(* Vectors and cosine similarity.                                          *)

Dot(a, b) == a[1] * b[1] + a[2] * b[2]

RECURSIVE VecSum(_)
VecSum(rows) ==
    IF rows = << >> THEN <<0, 0>>
    ELSE LET rest == VecSum(Tail(rows))
         IN <<Head(rows)[1] + rest[1], Head(rows)[2] + rest[2]>>

\* The largest r in lo..hi with r*r <= n.
RECURSIVE ISqrt(_, _, _)
ISqrt(n, lo, hi) ==
    IF lo >= hi THEN lo
    ELSE LET mid == (lo + hi + 1) \div 2
         IN IF mid * mid <= n THEN ISqrt(n, mid, hi) ELSE ISqrt(n, lo, mid - 1)

\* dot(a, b) / (|a| |b|) in thousandths.  A zero-norm row divided by the
\* substitute norm 1e-12 is still the zero row, so its cosine is 0.
Cosine(a, b) ==
    LET d == Dot(a, b)
        na == Dot(a, a)
        nb == Dot(b, b)
    IN IF na = 0 \/ nb = 0 THEN 0
       ELSE LET r == ISqrt((d * d * 1000000) \div (na * nb), 0, 1000)
            IN IF d < 0 THEN 0 - r ELSE r

----------------------------------------------------------------------------
(* The embedding run (infrastructure/embeddings.py, utils/embedding.py).   *)
(* A loaded run is its identifier and its rows [bgg_id, vec] in parquet row *)
(* order; NoEmbedding is what a missing run leaves (None).  The operators  *)
(* below take the rows.                                                    *)

NoEmbedding == [run_identifier |-> "none", rows |-> << >>]

has_id(run, bgg_id) == \E i \in 1..Len(run) : run[i].bgg_id = bgg_id

\* id_index / _index: {bgg_id: idx for idx, bgg_id in enumerate(bgg_ids)}
id_index(run, bgg_id) == CHOOSE i \in 1..Len(run) :
    /\ run[i].bgg_id = bgg_id
    /\ \A j \in 1..Len(run) : run[j].bgg_id = bgg_id => j <= i

\* [x for x in ids if store.has_id(x)]
RECURSIVE KnownIds(_, _)
KnownIds(run, ids) ==
    IF ids = << >> THEN << >>
    ELSE (IF has_id(run, Head(ids)) THEN <<Head(ids)>> ELSE << >>)
         \o KnownIds(run, Tail(ids))

\* embedding.vectors[[id_index[gid] for gid in ids]]
RowsOf(run, ids) == [k \in 1..Len(ids) |-> run[id_index(run, ids[k])].vec]

----------------------------------------------------------------------------
(* EmbeddingSimilarityRecommender (domain/recommendations/reccomender.py). *)

MEAN == "mean"
MAX == "max"
AggregationStrategy == {MEAN, MAX}

\* PreferenceClusterConfig defaults; the scaling factor 0.5 as a fraction.
min_samples_per_centroid == 2
dynamic_centroids == TRUE
centroid_scaling_num == 1
centroid_scaling_den == 2

ScoredGameId(bgg_id, score) == [bgg_id |-> bgg_id, score |-> score]

_determine_centroid_count_no_threshold(liked_count, min_samples, dynamic, scaling_num, scaling_den) ==
    IF dynamic
    THEN Max(1, Min(Max(1, (liked_count * scaling_num) \div scaling_den), liked_count))
    ELSE Max(1, Min(liked_count \div Max(1, min_samples), liked_count))

_determine_centroid_count(liked_count, min_samples, dynamic, scaling_num, scaling_den) ==
    IF liked_count < Max(1, min_samples) THEN 1
    ELSE IF dynamic
         THEN Max(1, Min(Max(1, (liked_count * scaling_num) \div scaling_den), liked_count))
         ELSE Max(1, Min(liked_count \div Max(1, min_samples), liked_count))

\* The centre of the rows a clustering puts in cluster c, as their sum.
ClusterCentre(data, assign, c) ==
    VecSum([i \in 1..Len(data) |-> IF assign[i] = c THEN data[i] ELSE <<0, 0>>])

\* Squared distance from row x to the mean of a cluster given as the sum of
\* its rows and their number, scaled by the square of that number.
ScaledDistance(x, centre_sum, size) ==
    (size * x[1] - centre_sum[1]) * (size * x[1] - centre_sum[1])
    + (size * x[2] - centre_sum[2]) * (size * x[2] - centre_sum[2])

ClusterSize(assign, c) == Cardinality({i \in DOMAIN assign : assign[i] = c})

\* The clusterings Lloyd's iteration can stop at: every cluster is non-empty
\* and every row is at least as near to its own cluster's mean as to any other.
ConvergedAssignments(data, n_clusters) ==
    {a \in [1..Len(data) -> 1..n_clusters] :
       /\ \A c \in 1..n_clusters : \E i \in 1..Len(data) : a[i] = c
       /\ \A i \in 1..Len(data), c \in 1..n_clusters :
            ScaledDistance(data[i], ClusterCentre(data, a, a[i]), ClusterSize(a, a[i]))
              * ClusterSize(a, c) * ClusterSize(a, c)
            <= ScaledDistance(data[i], ClusterCentre(data, a, c), ClusterSize(a, c))
              * ClusterSize(a, a[i]) * ClusterSize(a, a[i])}

\* The n-th element of a finite non-empty set, n counted from 0, in a fixed order.
RECURSIVE NthOf(_, _)
NthOf(S, n) ==
    LET first == CHOOSE x \in S : TRUE
    IN IF n = 0 THEN first ELSE NthOf(S \ {first}, n - 1)

\* What a random draw gives: with random_state an int the draw is a function
\* of the seed; with random_state None numpy's global generator is used and
\* any of the outcomes can come out.
DrawWith(outcomes, random_state) ==
    IF random_state = NoneValue THEN outcomes
    ELSE {NthOf(outcomes, random_state[1] % Cardinality(outcomes))}

\* KMeans(n_clusters, n_init="auto", random_state).fit(data).cluster_centers_:
\* a centre is the mean of its cluster's rows (kept as their sum: the rows
\* are normalised afterwards); the initial centres are drawn with random_state.
_run_kmeans(data, n_clusters, random_state) ==
    IF n_clusters = 1 THEN {<<VecSum(data)>>}
    ELSE DrawWith({[c \in 1..n_clusters |-> ClusterCentre(data, assign, c)] :
                     assign \in ConvergedAssignments(data, n_clusters)},
                  random_state)

_build_preference_vectors_uncapped(liked_matrix, min_samples, dynamic, scaling_num, scaling_den, random_state) ==
    LET liked_count == Len(liked_matrix)
        centroid_count == _determine_centroid_count(liked_count, min_samples, dynamic,
                                                    scaling_num, scaling_den)
    IN IF centroid_count = 1 \/ liked_count <= centroid_count
       THEN {<<VecSum(liked_matrix)>>}
       ELSE _run_kmeans(liked_matrix, centroid_count, random_state)

\* The possible preference matrices for the liked rows (never empty here: the
\* caller has rejected an empty liked_ids).  _normalize_rows keeps directions.
_build_preference_vectors(liked_matrix, min_samples, dynamic, scaling_num, scaling_den, random_state) ==
    LET liked_count == Len(liked_matrix)
        centroid_count == _determine_centroid_count(liked_count, min_samples, dynamic,
                                                    scaling_num, scaling_den)
    IN IF centroid_count = 1 \/ liked_count <= centroid_count
       THEN {<<VecSum(liked_matrix)>>}
       ELSE _run_kmeans(liked_matrix,
                        Max(1, Min(centroid_count, Max(1, liked_count \div 2))),
                        random_state)

\* mask = ~np.isin(bgg_ids, liked_ids); the ids and the vectors under the mask.
RECURSIVE MaskedRows(_, _)
MaskedRows_keep_liked(run, liked_ids) == run

MaskedRows(run, liked_ids) ==
    IF run = << >> THEN << >>
    ELSE (IF Head(run).bgg_id \in Range(liked_ids) THEN << >> ELSE <<Head(run)>>)
         \o MaskedRows(Tail(run), liked_ids)

_filter_candidates_unmasked_matrix(run, liked_ids) ==
    LET kept == MaskedRows(run, liked_ids)
    IN [candidate_ids |-> [k \in 1..Len(kept) |-> kept[k].bgg_id],
        cand_matrix |-> [k \in 1..Len(run) |-> run[k].vec]]

_filter_candidates(run, liked_ids) ==
    LET kept == MaskedRows(run, liked_ids)
    IN [candidate_ids |-> [k \in 1..Len(kept) |-> kept[k].bgg_id],
        cand_matrix |-> [k \in 1..Len(kept) |-> kept[k].vec]]

RECURSIVE SeqSum(_)
SeqSum(s) == IF s = << >> THEN 0 ELSE Head(s) + SeqSum(Tail(s))

SeqMax(s) == CHOOSE m \in Range(s) : \A x \in Range(s) : x <= m

\* similarity = normalized candidates @ normalized preferences^T, then the
\* row-wise max or mean; an empty matrix gives np.zeros((0,)).
_score_candidates(candidates, preferences, strategy) ==
    IF Len(candidates) = 0 \/ Len(preferences) = 0 THEN << >>
    ELSE [k \in 1..Len(candidates) |->
            LET row == [j \in 1..Len(preferences) |-> Cosine(candidates[k], preferences[j])]
            IN IF strategy = MAX THEN SeqMax(row)
               ELSE SeqSum(row) \div Len(preferences)]

\* for cid, score in zip(filtered_candidate_ids, scores)
ZipScored(ids, scores) ==
    [k \in 1..Min(Len(ids), Len(scores)) |-> ScoredGameId(ids[k], scores[k])]

\* A call that raised: nothing is returned.
Raised(error) == [outcome |-> error, preference_vectors |-> << >>, ranked |-> << >>]

\* The outcomes of recommend(liked_games, num_results) against a loaded run:
\* one per preference matrix the clustering can produce.
recommend(run, liked_games, num_results, aggregation, random_state) ==
    IF num_results <= 0 THEN {Raised("RecommendationUnavailableError")}
    ELSE IF run = NoEmbedding THEN {Raised("FileNotFoundError")}
    ELSE LET liked_ids == KnownIds(run.rows, liked_games)
         IN IF liked_ids = << >>
            THEN {Raised("RecommendationUnavailableError")}
            ELSE LET filtered == _filter_candidates(run.rows, liked_ids)
                 IN {[outcome |-> "ok",
                      preference_vectors |-> preference_vectors,
                      ranked |-> PySliceTo(
                          SortedByScoreDesc(ZipScored(
                              filtered.candidate_ids,
                              _score_candidates(filtered.cand_matrix, preference_vectors,
                                                aggregation))),
                          num_results)] :
                       preference_vectors \in _build_preference_vectors(
                           RowsOf(run.rows, liked_ids), min_samples_per_centroid,
                           dynamic_centroids, centroid_scaling_num, centroid_scaling_den,
                           random_state)}

----------------------------------------------------------------------------
(* EmbeddingStore.score_candidates (utils/embedding.py) and EmbeddingScorer *)
(* (domain/recommendations/scoring.py).                                    *)

\* The dict {bgg_id: score}; the empty dict is the empty function.
score_candidates(run, liked_ids, candidate_ids) ==
    LET liked_known == KnownIds(run, liked_ids)
        candidate_known == KnownIds(run, candidate_ids)
        center == VecSum(RowsOf(run, liked_known))
    IN IF liked_known = << >> \/ candidate_known = << >> \/ Dot(center, center) = 0
       THEN << >>
       ELSE [cid \in Range(candidate_known) |-> Cosine(run[id_index(run, cid)].vec, center)]

ScoredCandidate(candidate, score) == [candidate |-> candidate, score |-> score]

\* candidate ids that have an embedding and are not liked, in candidate order
RECURSIVE ScorableIds(_, _, _)
ScorableIds(run, candidates, liked_ids) ==
    IF candidates = << >> THEN << >>
    ELSE IF Len(candidates) = 1
    THEN (IF has_id(run, Head(candidates).id) /\ Head(candidates).id \notin Range(liked_ids)
          THEN <<Head(candidates).id>> ELSE << >>)
    ELSE LET half == Len(candidates) \div 2
         IN ScorableIds(run, SubSeq(candidates, 1, half), liked_ids)
                \o ScorableIds(run, SubSeq(candidates, half + 1, Len(candidates)), liked_ids)

\* the candidates that are not liked and have a score, each with its score
RECURSIVE ScoredOf(_, _, _)
ScoredOf(candidates, liked_ids, scores) ==
    IF candidates = << >> THEN << >>
    ELSE IF Len(candidates) = 1
    THEN (IF Head(candidates).id \notin Range(liked_ids) /\ Head(candidates).id \in DOMAIN scores
          THEN <<ScoredCandidate(Head(candidates), scores[Head(candidates).id])>>
          ELSE << >>)
    ELSE LET half == Len(candidates) \div 2
         IN ScoredOf(SubSeq(candidates, 1, half), liked_ids, scores)
                \o ScoredOf(SubSeq(candidates, half + 1, Len(candidates)), liked_ids, scores)

\* EmbeddingScorer.score(context)
score(context) ==
    LET store == context.embedding_index
    IN IF store = NoEmbedding
       THEN [outcome |-> "RecommendationUnavailableError", scored |-> << >>]
       ELSE LET liked_ids == KnownIds(store.rows, context.liked_games)
                candidate_ids == ScorableIds(store.rows, context.candidates, liked_ids)
                scores == score_candidates(store.rows, liked_ids, candidate_ids)
            IN IF liked_ids = << >> \/ candidate_ids = << >> \/ DOMAIN scores = {}
               THEN [outcome |-> "RecommendationUnavailableError", scored |-> << >>]
               ELSE [outcome |-> "ok",
                     scored |-> SortedByScoreDesc(
                                    ScoredOf(context.candidates, liked_ids, scores))]

----------------------------------------------------------------------------
(* run_pipeline (domain/recommendations/pipeline.py).                      *)

FEATURES == "features"
REFERENCES == "references"
StudyGroup == {FEATURES, REFERENCES}

\* _select_explainer(study_group).explain(context, top, db): one explanation
\* per ranked candidate, of the kind the participant's study group sees.
explain(context, top) ==
    [k \in 1..Len(top) |->
        IF context.study_group = FEATURES
        THEN [type |-> "features", features |-> Some(<< >>), references |-> NoneValue]
        ELSE [type |-> "references", features |-> NoneValue, references |-> Some(<< >>)]]

Selection(boardgame, explanation) == [boardgame |-> boardgame, explanation |-> explanation]

\* zip(top, explanations): one selection per pair
zip_selections(top, explanations) ==
    [k \in 1..Min(Len(top), Len(explanations)) |->
        Selection(top[k].candidate, explanations[k])]

\* run_pipeline once the scorer has answered: sort, slice, explain, zip
rank_and_explain(context, scored, top) ==
    [outcome |-> "ok", scored |-> scored, top |-> top,
     selections |-> zip_selections(top, explain(context, top))]

\* run_pipeline over what scorer.score(context) returned or raised
pipeline_over(context, scored) ==
    IF scored.outcome # "ok"
    THEN [outcome |-> scored.outcome, scored |-> << >>, top |-> << >>,
          selections |-> << >>]
    ELSE rank_and_explain(context, scored.scored,
                          PySliceTo(SortedByScoreDesc(scored.scored),
                                    context.num_results))

run_pipeline(context) == pipeline_over(context, score(context))

----------------------------------------------------------------------------
(* State of the ranking core: a loaded run, and calls made into the core.  *)

\* All sequences of distinct elements of S.
InjectiveSeqs(S) == {s \in SeqsUpTo(S, Cardinality(S)) : IsInjective(s)}

\* The runs a training job can leave: any set of games in any row order.
Runs == {[run_identifier |-> "run-1",
          rows |-> [k \in 1..Len(ids) |-> [bgg_id |-> ids[k], vec |-> vecs[k]]]] :
           ids \in InjectiveSeqs(GameIds), vecs \in [1..Cardinality(GameIds) -> Vecs]}

\* A catalogue game as the tests' _game helper builds it.
SampleGame(id) ==
    [id |-> id, min_players |-> 2, max_players |-> 4, playing_time_minutes |-> 30,
     description |-> "baseline", image_url |-> "baseline.png"]

CandidateLists == {[k \in 1..Len(ids) |-> SampleGame(ids[k])] : ids \in InjectiveSeqs(GameIds)}

NoGame == [id |-> 0]
NoCall == [op |-> "none"]

InitRank ==
    /\ embedding \in Runs \cup {NoEmbedding}
    /\ catalog = [g \in GameIds |-> NoGame]
    /\ recommendations = << >>
    /\ result = NoCall
    /\ Quiet
    /\ participants = {}

\* EmbeddingSimilarityRecommender(aggregation).recommend(liked_games, num_results)
\* on a recommender constructed with random_state.
Recommend(liked_games, num_results, aggregation, random_state) ==
    /\ \E r \in recommend(embedding, liked_games, num_results, aggregation, random_state) :
         result' = [op |-> "recommend", liked_games |-> liked_games,
                    num_results |-> num_results, aggregation |-> aggregation,
                    random_state |-> random_state,
                    outcome |-> r.outcome, preference_vectors |-> r.preference_vectors,
                    ranked |-> r.ranked]
    /\ UNCHANGED <<embedding, catalog, recommendations, enrichVars, embeddings_dir, loadVars,
                   authVars>>

RankContext(liked_games, candidates, num_results, study_group) ==
    [liked_games |-> liked_games, candidates |-> candidates, num_results |-> num_results,
     study_group |-> study_group, embedding_index |-> embedding]

\* run_pipeline(context=..., scorer=EmbeddingScorer(), explainer=...)
RunPipeline(liked_games, candidates, num_results, study_group) ==
    /\ LET r == run_pipeline(RankContext(liked_games, candidates, num_results, study_group))
       IN result' = [op |-> "run_pipeline", liked_games |-> liked_games,
                     candidates |-> candidates, num_results |-> num_results,
                     outcome |-> r.outcome, scored |-> r.scored, top |-> r.top,
                     selections |-> r.selections]
    /\ UNCHANGED <<embedding, catalog, recommendations, enrichVars, embeddings_dir, loadVars,
                   authVars>>

LikedLists == SeqsUpTo(GameIds, MaxLiked)

\* One call into the core for each loaded run.
NextRank ==
    \/ /\ result = NoCall
       /\ \E liked_games \in LikedLists, num_results \in 0..MaxResults,
            aggregation \in AggregationStrategy :
            Recommend(liked_games, num_results, aggregation, NoneValue)
    \/ /\ result = NoCall
       /\ \E liked_games \in LikedLists, candidates \in CandidateLists,
            num_results \in 1..MaxResults :
            RunPipeline(liked_games, candidates, num_results, REFERENCES)

SpecRank == InitRank /\ [][NextRank]_vars

----------------------------------------------------------------------------
(* The boardgames table and the play-context query                         *)
(* (domain/games/repository.py, service._fetch_candidates).                *)

SHORT == "short"
MEDIUM == "medium"
LONG == "long"
PlayDuration == {SHORT, MEDIUM, LONG}

\* the minutes a duration bucket allows
short_minutes == 45
medium_minutes == 90
long_minutes == 240

\* limit = max(candidate_limit_floor, desired_results * candidate_limit_per_result)
candidate_limit_floor == 200
candidate_limit_per_result == 50

\* The ids of S in ascending order (ORDER BY id).
RECURSIVE OrderById(_)
OrderById(S) ==
    IF S = {} THEN << >>
    ELSE LET middle == CHOOSE x \in S :
                           Cardinality({y \in S : y < x}) = Cardinality(S) \div 2
         IN OrderById({y \in S : y < middle}) \o <<middle>>
                \o OrderById({y \in S : y > middle})

list_for_play_context_lower_bound_only(table, players, max_minutes, limit) ==
    LET matched == {g \in DOMAIN table :
                      /\ table[g] # NoGame
                      /\ players = NoneValue \/ table[g].min_players <= players[1]}
        ordered == OrderById(matched)
        rows == [k \in 1..Len(ordered) |-> table[ordered[k]]]
    IN IF limit = NoneValue THEN rows ELSE PySliceTo(rows, limit[1])

\* BoardgameRepository.list_for_play_context(players, max_minutes, limit)
list_for_play_context(table, players, max_minutes, limit) ==
    LET matched == {g \in DOMAIN table :
                      /\ table[g] # NoGame
                      /\ players = NoneValue \/ (/\ table[g].min_players <= players[1]
                                                 /\ table[g].max_players >= players[1])
                      /\ max_minutes = NoneValue
                           \/ table[g].playing_time_minutes <= max_minutes[1]}
        ordered == OrderById(matched)
        rows == [k \in 1..Len(ordered) |-> table[ordered[k]]]
    IN IF limit = NoneValue THEN rows ELSE PySliceTo(rows, limit[1])

\* {"short": 45, "medium": 90, "long": 240}.get(duration), None without a duration
max_minutes_of(duration) ==
    IF duration = SHORT THEN Some(short_minutes)
    ELSE IF duration = MEDIUM THEN Some(medium_minutes)
    ELSE IF duration = LONG THEN Some(long_minutes)
    ELSE NoneValue

\* BoardGameResponse.from_record(record): the record's fields, validated
from_record(record) ==
    [id |-> record.id, min_players |-> record.min_players,
     max_players |-> record.max_players,
     playing_time_minutes |-> record.playing_time_minutes,
     description |-> record.description, image_url |-> record.image_url]

_fetch_candidates(table, play_context, desired_results) ==
    LET records == list_for_play_context(
                       table, Some(play_context.players),
                       max_minutes_of(play_context.duration),
                       Some(Max(candidate_limit_floor,
                                desired_results * candidate_limit_per_result)))
    IN [k \in 1..Len(records) |-> from_record(records[k])]

----------------------------------------------------------------------------
(* Recommendation results and their persistence                            *)
(* (domain/recommendations/models.py, records.py, repository.py).          *)
(* A result is kept by id, owner, study group and selections; a boardgame  *)
(* by id, player bounds and playing time.  No BGG access token is set, so  *)
(* save fetches no metadata and payloads carry the boardgame's own fields. *)

RecIds == {"rec-1", "rec-2"}
NoRecord == [id |-> "none"]
NoResult == [id |-> "none"]

RecommendationResult(id, participant_id, experiment_group, selections) ==
    [id |-> id, participant_id |-> participant_id,
     experiment_group |-> experiment_group, selections |-> selections]

\* pydantic model_dump(mode="json") of a list of ReferenceExplanation / FeatureExplanation
DumpReferences(refs) ==
    [k \in 1..Len(refs) |->
        [bgg_id |-> refs[k].bgg_id, title |-> refs[k].title, influence |-> refs[k].influence]]

DumpFeatures(feats) ==
    [k \in 1..Len(feats) |->
        [label |-> feats[k].label, category |-> feats[k].category,
         influence |-> feats[k].influence]]

\* RecommendationExplanation.model_dump(mode="json")
model_dump(explanation) ==
    [type |-> explanation.type,
     features |-> IF explanation.features = NoneValue THEN NoneValue
                  ELSE Some(DumpFeatures(explanation.features[1])),
     references |-> IF explanation.references = NoneValue THEN NoneValue
                    ELSE Some(DumpReferences(explanation.references[1]))]

Influences == {"positive", "neutral", "negative"}
Categories == {"mechanic", "theme", "genre", "playtime", "complexity", "age"}

\* the field constraints of ReferenceExplanation and FeatureExplanation
ValidReference(raw) == raw.bgg_id >= 1 /\ raw.title # "" /\ raw.influence \in Influences
ValidFeature(raw) ==
    raw.label # "" /\ raw.category \in Categories /\ raw.influence \in Influences

ValidExplanation(raw) ==
    /\ raw.features = NoneValue
         \/ \A k \in 1..Len(raw.features[1]) : ValidFeature(raw.features[1][k])
    /\ raw.references = NoneValue
         \/ \A k \in 1..Len(raw.references[1]) : ValidReference(raw.references[1][k])

\* RecommendationExplanation.model_validate(raw), for a raw value that is valid
model_validate(raw) ==
    [type |-> raw.type,
     features |-> IF raw.features = NoneValue THEN NoneValue
                  ELSE Some([k \in 1..Len(raw.features[1]) |->
                          [label |-> raw.features[1][k].label,
                           category |-> raw.features[1][k].category,
                           influence |-> raw.features[1][k].influence]]),
     references |-> IF raw.references = NoneValue THEN NoneValue
                    ELSE Some([k \in 1..Len(raw.references[1]) |->
                            [bgg_id |-> raw.references[1][k].bgg_id,
                             title |-> raw.references[1][k].title,
                             influence |-> raw.references[1][k].influence]])]

\* BggMetadata: the description and the image a fetch or the cache gave, each
\* None when it was missing, and the day of the fetch
BggMetadata(description, image_url, fetched_at) ==
    [description |-> description, image_url |-> image_url, fetched_at |-> fetched_at]

\* BggMetadataFetcher.get(bgg_id, allow_live_fetch=False): the cached row,
\* fresh or stale, or None
fetcher_get(cache, bgg_id) == IF bgg_id \in DOMAIN cache THEN cache[bgg_id] ELSE NoneValue

\* metadata_map.get(bgg_id)
map_get(metadata_map, bgg_id) ==
    IF bgg_id \in DOMAIN metadata_map THEN metadata_map[bgg_id] ELSE NoneValue

\* the description _payload_with_metadata stores: the metadata's when it has
\* one, the boardgame's own otherwise
description_of(metadata, boardgame) ==
    IF metadata # NoneValue /\ metadata[1].description # NoneValue
    THEN metadata[1].description[1]
    ELSE boardgame.description

\* the image _payload_with_metadata stores, chosen as the description is
image_url_of(metadata, boardgame) ==
    IF metadata # NoneValue /\ metadata[1].image_url # NoneValue
    THEN metadata[1].image_url[1]
    ELSE boardgame.image_url

\* _payload_with_metadata when the cached row is never consulted
_payload_without_cache(cache, boardgame, metadata_override) ==
    [id |-> boardgame.id, min_players |-> boardgame.min_players,
     max_players |-> boardgame.max_players,
     playing_time_minutes |-> boardgame.playing_time_minutes,
     description |-> description_of(metadata_override, boardgame),
     image_url |-> image_url_of(metadata_override, boardgame)]

\* RecommendationRepository._payload_with_metadata(fetcher, boardgame, metadata_override)
_payload_with_metadata(cache, boardgame, metadata_override) ==
    LET metadata == IF metadata_override # NoneValue THEN metadata_override
                    ELSE fetcher_get(cache, boardgame.id)
    IN [id |-> boardgame.id, min_players |-> boardgame.min_players,
        max_players |-> boardgame.max_players,
        playing_time_minutes |-> boardgame.playing_time_minutes,
        description |-> description_of(metadata, boardgame),
        image_url |-> image_url_of(metadata, boardgame)]

\* the RecommendationRecord that save builds from a result
RecordOf(res, cache, metadata_map) ==
    [id |-> res.id, participant_id |-> res.participant_id,
     experiment_group |-> res.experiment_group,
     recommendations |-> [k \in 1..Len(res.selections) |->
         [boardgame |-> _payload_with_metadata(
                            cache, res.selections[k].boardgame,
                            map_get(metadata_map, res.selections[k].boardgame.id)),
          explanation |-> model_dump(res.selections[k].explanation)]]]

\* session.merge(record) and commit: the record replaces the row of its id
merge_record(table, record) == [table EXCEPT ![record.id] = record]

\* RecommendationRepository.save(result) with BGG_ACCESS_TOKEN unset and no
\* cached metadata: nothing is fetched, the record is merged and committed
save(table, res) == merge_record(table, RecordOf(res, NoCache, NoMetadataMap))

\* the selections to_domain rebuilds from the stored rows; a row whose
\* boardgame cannot be rebuilt is skipped
RECURSIVE SelectionsOf(_)
SelectionsOf(rows) ==
    IF rows = << >> THEN << >>
    ELSE LET rec_obj == Head(rows)
             raw == rec_obj.boardgame
         IN (IF raw.id \in Int
             THEN <<[boardgame |-> [id |-> raw.id, min_players |-> raw.min_players,
                                    max_players |-> raw.max_players,
                                    playing_time_minutes |-> raw.playing_time_minutes,
                                    description |-> raw.description,
                                    image_url |-> raw.image_url],
                     explanation |-> model_validate(rec_obj.explanation)]>>
             ELSE << >>)
            \o SelectionsOf(Tail(rows))

to_domain_reversed(record) ==
    LET kept == SelectionsOf(record.recommendations)
    IN RecommendationResult(
           record.id, record.participant_id,
           IF record.experiment_group \in StudyGroup THEN record.experiment_group
           ELSE REFERENCES,
           [k \in 1..Len(kept) |-> kept[Len(kept) + 1 - k]])

\* RecommendationRecord.to_domain(); validation of an explanation is outside
\* the try block, so an invalid stored explanation raises
to_domain(record) ==
    IF \E k \in 1..Len(record.recommendations) :
           ~ValidExplanation(record.recommendations[k].explanation)
    THEN [id |-> "ValidationError"]
    ELSE RecommendationResult(
             record.id, record.participant_id,
             IF record.experiment_group \in StudyGroup THEN record.experiment_group
             ELSE REFERENCES,
             SelectionsOf(record.recommendations))

\* RecommendationRepository.get(recommendation_id)
get(table, recommendation_id) ==
    IF recommendation_id \notin DOMAIN table \/ table[recommendation_id] = NoRecord
    THEN NoResult
    ELSE to_domain(table[recommendation_id])

get_recommendation_any_participant(table, recommendation_id, participant_id) ==
    LET rec == get(table, recommendation_id)
    IN IF rec = NoResult
       THEN [outcome |-> "RecommendationNotFoundError", recommendation |-> NoResult]
       ELSE [outcome |-> "ok", recommendation |-> rec]

\* service.get_recommendation(recommendation_id, participant_id, db)
get_recommendation(table, recommendation_id, participant_id) ==
    LET rec == get(table, recommendation_id)
    IN IF rec = NoResult
       THEN [outcome |-> "RecommendationNotFoundError", recommendation |-> NoResult]
       ELSE IF rec.participant_id # participant_id
       THEN [outcome |-> "RecommendationUnauthorizedError", recommendation |-> NoResult]
       ELSE [outcome |-> "ok", recommendation |-> rec]

----------------------------------------------------------------------------
(* The recommendation service and its route                                *)
(* (domain/recommendations/service.py, routes.py, schemas.py,              *)
(* http/errors/handlers.py).                                               *)

Participants == {"p1", "p2"}

\* the study group stored with the participant
study_group_of(participant_id) == IF participant_id = "p1" THEN FEATURES ELSE REFERENCES

\* RecommendationRequest.num_results: ge=1, le=num_results_max
num_results_max == 100

\* RecommendationRequest validation of liked_games: min_length=1, then
\* _validate_game_ids; "" when the list passes
liked_games_error(liked_games) ==
    IF Len(liked_games) < 1 THEN "List should have at least 1 item"
    ELSE IF Cardinality(Range(liked_games)) # Len(liked_games)
         THEN "Game IDs must be unique."
    ELSE IF \E k \in 1..Len(liked_games) : liked_games[k] < 1
         THEN "Game IDs must be positive integers."
    ELSE ""

\* The fields of the request that fail schema validation.
RequestValidationErrors(request) ==
    (IF liked_games_error(request.liked_games) # "" THEN {"liked_games"} ELSE {})
    \cup (IF request.play_context.players < 1 THEN {"play_context.players"} ELSE {})
    \cup (IF request.num_results < 1 \/ request.num_results > num_results_max
          THEN {"num_results"} ELSE {})

\* _invalid_params_from_errors: an error whose input is a list is reported
\* once per position liked_games[idx]; the liked ids at the positions named.
InvalidLikedNamed(request) ==
    IF "liked_games" \in RequestValidationErrors(request)
    THEN Range(request.liked_games) ELSE {}

Failure(outcome, named, candidates) ==
    [outcome |-> outcome, named |-> named, candidates |-> candidates,
     selections |-> << >>]

\* missing_liked: the liked ids the store has no row for
RECURSIVE MissingLiked(_, _)
MissingLiked(rows, liked_games) ==
    IF liked_games = << >> THEN << >>
    ELSE (IF has_id(rows, Head(liked_games)) THEN << >> ELSE <<Head(liked_games)>>)
         \o MissingLiked(rows, Tail(liked_games))

\* generate_recommendations from the pipeline's selections to its result
result_of_pipeline(pipeline, candidates, num_results) ==
    IF pipeline.outcome # "ok"
    THEN Failure(pipeline.outcome, {}, candidates)
    ELSE [outcome |-> "ok", named |-> {}, candidates |-> candidates,
          selections |-> PySliceTo(pipeline.selections, num_results)]

\* generate_recommendations once the candidate pool is fetched
generate_over(request, study_group, store, candidates) ==
    IF candidates = << >>
    THEN Failure("RecommendationInputError", {}, candidates)
    ELSE IF store = NoEmbedding
    THEN Failure("RecommendationUnavailableError", {}, candidates)
    ELSE IF MissingLiked(store.rows, request.liked_games) # << >>
    THEN Failure("RecommendationInputError",
                 Range(MissingLiked(store.rows, request.liked_games)), candidates)
    ELSE result_of_pipeline(
             run_pipeline([liked_games |-> request.liked_games,
                           candidates |-> candidates,
                           num_results |-> request.num_results,
                           study_group |-> study_group,
                           embedding_index |-> store]),
             candidates, request.num_results)

\* generate_recommendations up to the result it is about to save
generate_recommendations(request, participant_id, study_group, table, store) ==
    generate_over(request, study_group, store,
                  _fetch_candidates(table, request.play_context, request.num_results))

\* the status create_recommendations answers a service exception with
StatusOfError(outcome) ==
    IF outcome = "RecommendationInputError" THEN 400
    ELSE IF outcome = "RecommendationUnavailableError" THEN 503
    ELSE 500

\* the response create_recommendations gives for what the service returned
\* or raised
response_of(generated) ==
    IF generated.outcome = "ok"
    THEN [status |-> 201, error |-> "", named |-> {},
          candidates |-> generated.candidates,
          selections |-> generated.selections]
    ELSE [status |-> StatusOfError(generated.outcome), error |-> generated.outcome,
          named |-> generated.named, candidates |-> generated.candidates,
          selections |-> << >>]

\* POST /recommendation for a session of participant_id
create_recommendations(participant_id, request, table, store) ==
    IF RequestValidationErrors(request) # {}
    THEN [status |-> 400, error |-> "RequestValidationError",
          named |-> InvalidLikedNamed(request), candidates |-> << >>,
          selections |-> << >>]
    ELSE response_of(generate_recommendations(
             request, participant_id, study_group_of(participant_id), table, store))

----------------------------------------------------------------------------
(* State of the service: a catalogue, a loaded run or none, and requests.  *)

\* Sample games: one for 3 to 5 players that takes 45 minutes, one for
\* exactly 4 players that takes 90, one for up to 3 players that takes 241.
GameKinds ==
    {[min_players |-> 3, max_players |-> 5, playing_time_minutes |-> 45],
     [min_players |-> 4, max_players |-> 4, playing_time_minutes |-> 90],
     [min_players |-> 1, max_players |-> 3, playing_time_minutes |-> 241]}

GameOf(id, kind) ==
    [id |-> id, min_players |-> kind.min_players, max_players |-> kind.max_players,
     playing_time_minutes |-> kind.playing_time_minutes,
     description |-> "baseline", image_url |-> "baseline.png"]

Catalogs == {[g \in GameIds |-> GameOf(g, kinds[g])] : kinds \in [GameIds -> GameKinds]}

\* The vector the service runs give a game: game 2 off the axis, game 3 the zero row.
SampleVec(bgg_id) ==
    IF bgg_id = 2 THEN <<1, 1>> ELSE IF bgg_id = 3 THEN <<0, 0>> ELSE <<1, 0>>

\* Runs over any two or more games, rows in ascending id order.
ServiceRuns ==
    {[run_identifier |-> "run-1",
      rows |-> [k \in 1..Cardinality(S) |->
                  [bgg_id |-> OrderById(S)[k], vec |-> SampleVec(OrderById(S)[k])]]] :
        S \in {T \in SUBSET GameIds : Cardinality(T) >= 2}}

PlayerCounts == {3, 4}
Durations == PlayDuration \cup {"none"}

Requests ==
    [liked_games : SeqsUpTo(GameIds \cup {0}, MaxLiked),
     play_context : [players : PlayerCounts, duration : Durations],
     num_results : 0..MaxResults]

InitService ==
    /\ embedding \in ServiceRuns \cup {NoEmbedding}
    /\ catalog \in Catalogs
    /\ recommendations = [r \in RecIds |-> NoRecord]
    /\ result = NoCall
    /\ Quiet
    /\ participants = Participants

\* what the call left: the request, the response and the id saved under
CreateResult(participant_id, request, response, id) ==
    [op |-> "create", participant_id |-> participant_id, request |-> request,
     status |-> response.status, error |-> response.error, named |-> response.named,
     candidates |-> response.candidates, selections |-> response.selections,
     id |-> id]

\* a 201 response is saved under a fresh id; any other leaves the table alone
Answer(participant_id, request, response) ==
    IF response.status = 201
    THEN \E rec_id \in RecIds :
           /\ recommendations[rec_id] = NoRecord
           /\ recommendations' = save(recommendations,
                  RecommendationResult(rec_id, participant_id,
                                       study_group_of(participant_id),
                                       response.selections))
           /\ result' = CreateResult(participant_id, request, response, rec_id)
    ELSE /\ recommendations' = recommendations
         /\ result' = CreateResult(participant_id, request, response, "none")

\* POST /recommendation: validate, generate, save under a fresh id, answer
PostRecommendation(participant_id, request) ==
    /\ Answer(participant_id, request,
              create_recommendations(participant_id, request, catalog, embedding))
    /\ UNCHANGED <<embedding, catalog, enrichVars, embeddings_dir, loadVars, authVars>>

\* get_recommendation(recommendation_id, participant_id, db)
GetRecommendation(recommendation_id, participant_id) ==
    /\ LET got == get_recommendation(recommendations, recommendation_id, participant_id)
       IN result' = [op |-> "get", recommendation_id |-> recommendation_id,
                     participant_id |-> participant_id, outcome |-> got.outcome,
                     recommendation |-> got.recommendation]
    /\ UNCHANGED <<embedding, catalog, recommendations, enrichVars, embeddings_dir, loadVars,
                   authVars>>

\* One request against each environment, then retrievals of what it stored.
NextService ==
    \/ /\ result = NoCall
       /\ \E participant_id \in Participants, request \in Requests :
            PostRecommendation(participant_id, request)
    \/ /\ result.op = "create" /\ result.status = 201
       /\ \E recommendation_id \in RecIds, participant_id \in Participants :
            GetRecommendation(recommendation_id, participant_id)

SpecService == InitService /\ [][NextService]_vars

----------------------------------------------------------------------------
(* State of the store: results saved by any participant, and retrievals.   *)

MaxSelections == 2   \* most selections in a saved result

\* Two selections: one explained by liked-game references of opposite
\* polarity, one by a neutral feature together with a reference.
SampleSelections ==
    {[boardgame |-> GameOf(1, [min_players |-> 2, max_players |-> 4,
                               playing_time_minutes |-> 30]),
      explanation |->
         [type |-> "references", features |-> NoneValue,
          references |-> Some(<<[bgg_id |-> 2, title |-> "Catan", influence |-> "positive"],
                                [bgg_id |-> 3, title |-> "Azul", influence |-> "negative"]>>)]],
     [boardgame |-> GameOf(2, [min_players |-> 1, max_players |-> 2,
                               playing_time_minutes |-> 60]),
      explanation |->
         [type |-> "features",
          features |-> Some(<<[label |-> "Deck-building", category |-> "mechanic",
                               influence |-> "neutral"]>>),
          references |-> Some(<<[bgg_id |-> 1, title |-> "Catan",
                                 influence |-> "neutral"]>>)]]}

Results ==
    {RecommendationResult(id, participant_id, study_group_of(participant_id), selections) :
        id \in RecIds, participant_id \in Participants,
        selections \in SeqsUpTo(SampleSelections, MaxSelections)}

InitStore ==
    /\ embedding = NoEmbedding
    /\ catalog = [g \in GameIds |-> NoGame]
    /\ recommendations = [r \in RecIds |-> NoRecord]
    /\ result = NoCall
    /\ Quiet
    /\ participants = Participants

\* RecommendationRepository(db).save(res)
SaveResult(res) ==
    /\ recommendations' = save(recommendations, res)
    /\ result' = [op |-> "save", saved |-> res]
    /\ UNCHANGED <<embedding, catalog, enrichVars, embeddings_dir, loadVars, authVars>>

NextStore ==
    \/ \E res \in Results : SaveResult(res)
    \/ \E recommendation_id \in RecIds, participant_id \in Participants :
         GetRecommendation(recommendation_id, participant_id)

SpecStore == InitStore /\ [][NextStore]_vars

----------------------------------------------------------------------------
(* Metadata enrichment inside RecommendationRepository.save                *)
(* (domain/recommendations/repository.py, domain/games/bgg_metadata.py).   *)
(* With an access token set, save submits one fetch_metadata_live call per *)
(* selection to a thread pool, collects the futures as they complete, and  *)
(* then builds and commits the record.  A worker runs one task at a time   *)
(* and takes tasks in submission order.                                    *)

MaxFetched == 9      \* most selections of a result that is saved
max_fetch_workers == 8

\* A selection of game k as the service hands it to save.
EnrichSelection(k) ==
    [boardgame |-> SampleGame(k),
     explanation |-> [type |-> "references", features |-> NoneValue,
                      references |-> Some(<<[bgg_id |-> 1, title |-> "Catan",
                                            influence |-> "positive"]>>)]]

\* The result rec-1 of participant p1 with selections of games 1..n.
EnrichResult(n) ==
    RecommendationResult("rec-1", "p1", REFERENCES, [k \in 1..n |-> EnrichSelection(k)])

EnrichResults == {EnrichResult(n) : n \in 1..MaxFetched}

\* Environments: a token or none, and a cache with or without a row of game 1.
CachedGameOne ==
    [g \in {1} |-> Some(BggMetadata(Some("cached"), Some("cached.png"), 1))]
BggEnvironments ==
    [access_token : BOOLEAN, fetch_enabled : BOOLEAN, cache : {NoCache, CachedGameOne}]

\* What fetch_metadata_live returns as metadata: a fresh description, or None
\* after a timeout, an API error or an empty answer.
FetchOutcomes == {Some(BggMetadata(Some("fresh"), Some("fresh.png"), 1)), NoneValue}

pool_workers_unbounded(selections) == Len(selections)

\* workers = min(8, len(selections))
pool_workers(selections) == Min(max_fetch_workers, Len(selections))

\* metadata_map[bgg_id] = metadata
map_put(metadata_map, bgg_id, metadata) ==
    [g \in DOMAIN metadata_map \cup {bgg_id} |->
        IF g = bgg_id THEN metadata ELSE metadata_map[g]]

InitEnrich ==
    /\ embedding = NoEmbedding
    /\ catalog = [g \in GameIds |-> NoGame]
    /\ recommendations = [r \in RecIds |-> NoRecord]
    /\ result = NoCall
    /\ bgg \in BggEnvironments
    /\ pool = IdlePool
    /\ embeddings_dir = << >>
    /\ Unloaded
    /\ participants = Participants
    /\ session = NoSession

\* save(res) up to the submission of the fetches; without selections, with
\* fetching disabled or without a token it builds and commits the record at
\* once.  A result is saved under a fresh id; the result saved last may be
\* saved again while it has at most MaxSelections selections.
BeginSave(res) ==
    /\ pool = IdlePool
    /\ \/ recommendations[res.id] = NoRecord
       \/ /\ result.op = "save"
          /\ result.saved = res
          /\ Len(res.selections) <= MaxSelections
    /\ IF res.selections # << >> /\ bgg.fetch_enabled /\ bgg.access_token
       THEN /\ pool' = [phase |-> "fetching", res |-> res,
                        workers |-> pool_workers(res.selections),
                        started |-> 0, running |-> {},
                        metadata_map |-> NoMetadataMap]
            /\ UNCHANGED <<recommendations, result>>
       ELSE /\ recommendations' =
                   merge_record(recommendations, RecordOf(res, bgg.cache, NoMetadataMap))
            /\ result' = [op |-> "save", saved |-> res]
            /\ pool' = pool
    /\ UNCHANGED <<embedding, catalog, bgg, embeddings_dir, loadVars, authVars>>

\* An idle worker of the pool takes the next submitted task.
WorkerTakes ==
    /\ pool.phase = "fetching"
    /\ pool.started < Len(pool.res.selections)
    /\ Cardinality(pool.running) < pool.workers
    /\ pool' = [pool EXCEPT !.started = @ + 1, !.running = @ \cup {pool.started + 1}]
    /\ UNCHANGED <<embedding, catalog, recommendations, result, bgg, embeddings_dir, loadVars,
                   authVars>>

FetchRaises_propagates(k) ==
    /\ pool.phase = "fetching"
    /\ k \in pool.running
    /\ pool' = IdlePool
    /\ result' = [op |-> "save", saved |-> pool.res]
    /\ UNCHANGED <<embedding, catalog, recommendations, bgg, embeddings_dir, loadVars, authVars>>

\* fetch_metadata_live of task k returns; the future completes and
\* metadata_map[bgg_id] = metadata
FetchReturns(k, metadata) ==
    /\ pool.phase = "fetching"
    /\ k \in pool.running
    /\ pool' = [pool EXCEPT
                  !.running = @ \ {k},
                  !.metadata_map = map_put(@, pool.res.selections[k].boardgame.id,
                                           metadata)]
    /\ UNCHANGED <<embedding, catalog, recommendations, result, bgg, embeddings_dir, loadVars,
                   authVars>>

\* the call of task k raises; future.result() raises, the exception is
\* logged and metadata_map[bgg_id] = None
FetchRaises(k) ==
    /\ pool.phase = "fetching"
    /\ k \in pool.running
    /\ pool' = [pool EXCEPT
                  !.running = @ \ {k},
                  !.metadata_map = map_put(@, pool.res.selections[k].boardgame.id,
                                           NoneValue)]
    /\ UNCHANGED <<embedding, catalog, recommendations, result, bgg, embeddings_dir, loadVars,
                   authVars>>

\* every future has completed: build the record, merge and commit
CommitSave ==
    /\ pool.phase = "fetching"
    /\ pool.started = Len(pool.res.selections)
    /\ pool.running = {}
    /\ recommendations' =
           merge_record(recommendations, RecordOf(pool.res, bgg.cache, pool.metadata_map))
    /\ result' = [op |-> "save", saved |-> pool.res]
    /\ pool' = IdlePool
    /\ UNCHANGED <<embedding, catalog, bgg, embeddings_dir, loadVars, authVars>>

NextEnrich ==
    \/ \E res \in EnrichResults : BeginSave(res)
    \/ WorkerTakes
    \/ \E k \in 1..MaxFetched, metadata \in FetchOutcomes : FetchReturns(k, metadata)
    \/ \E k \in 1..MaxFetched : FetchRaises(k)
    \/ CommitSave

SpecEnrich == InitEnrich /\ [][NextEnrich]_vars

----------------------------------------------------------------------------
(* Calls of the preference-vector builder on its own                       *)
(* (domain/recommendations/reccomender.py), over cluster configurations    *)
(* other than the default one.                                             *)

MaxLikedCount == 8   \* largest liked count handed to _determine_centroid_count
MaxRows == 4         \* most rows of a liked matrix handed to _build_preference_vectors

\* centroid_scaling_factor as a fraction <<numerator, denominator>>:
\* -0.5, 0.4, 0.5, 0.75, 1.0 and 1.5
ScalingFactors == {<<-1, 2>>, <<2, 5>>, <<1, 2>>, <<3, 4>>, <<1, 1>>, <<3, 2>>}

\* PreferenceClusterConfig(...): the dataclass validates nothing, so
\* min_samples_per_centroid may be zero or negative
ClusterConfigs ==
    [min_samples_per_centroid : -1..3, dynamic_centroids : BOOLEAN,
     centroid_scaling_factor : ScalingFactors]

LikedMatrices == SeqsUpTo(Vecs, MaxRows) \ {<< >>}

InitCentroid ==
    /\ embedding = NoEmbedding
    /\ catalog = [g \in GameIds |-> NoGame]
    /\ recommendations = << >>
    /\ result = NoCall
    /\ Quiet
    /\ participants = {}

\* _determine_centroid_count(liked_count, **config)
DetermineCentroidCount(liked_count, config) ==
    /\ result' = [op |-> "centroid_count", liked_count |-> liked_count,
                  config |-> config,
                  centroid_count |-> _determine_centroid_count(
                      liked_count, config.min_samples_per_centroid,
                      config.dynamic_centroids, config.centroid_scaling_factor[1],
                      config.centroid_scaling_factor[2])]
    /\ UNCHANGED <<embedding, catalog, recommendations, enrichVars, embeddings_dir, loadVars,
                   authVars>>

\* _build_preference_vectors(liked_matrix, **config, random_state)
BuildPreferenceVectors(liked_matrix, config) ==
    /\ \E preference_vectors \in _build_preference_vectors(
              liked_matrix, config.min_samples_per_centroid, config.dynamic_centroids,
              config.centroid_scaling_factor[1], config.centroid_scaling_factor[2],
              NoneValue) :
         result' = [op |-> "preference_vectors", liked_matrix |-> liked_matrix,
                    config |-> config, preference_vectors |-> preference_vectors]
    /\ UNCHANGED <<embedding, catalog, recommendations, enrichVars, embeddings_dir, loadVars,
                   authVars>>

\* One call for each configuration and input.
NextCentroid ==
    \/ /\ result = NoCall
       /\ \E liked_count \in 1..MaxLikedCount, config \in ClusterConfigs :
            DetermineCentroidCount(liked_count, config)
    \/ /\ result = NoCall
       /\ \E liked_matrix \in LikedMatrices, config \in ClusterConfigs :
            BuildPreferenceVectors(liked_matrix, config)

SpecCentroid == InitCentroid /\ [][NextCentroid]_vars

----------------------------------------------------------------------------
(* Repeated calls of one recommender on one run with four liked games, the *)
(* smallest liked count at which the default cluster configuration asks    *)
(* k-means for two centres (domain/recommendations/reccomender.py).        *)

MaxSeed == 1         \* largest BOARDGAMES_RECOMMENDER_RANDOM_SEED / random_state

\* The corners of a rectangle: k-means with two centres converges on them to
\* the left/right split or to the top/bottom split, depending on the start.
CornerVecs == <<(<<1, 1>>), (<<3, 1>>), (<<1, 2>>), (<<3, 2>>)>>

Axes == {<<1, 0>>, <<0, 1>>}

\* Runs of six games: game 1 on the first corner, games 2..4 on the other
\* corners in any order, game 5 on an axis and game 6 on the second axis.
SeedRuns ==
    {[run_identifier |-> "run-1",
      rows |-> [k \in 1..6 |->
                  [bgg_id |-> k,
                   vec |-> IF k <= 4 THEN CornerVecs[order[k]]
                           ELSE IF k = 5 THEN fifth ELSE <<0, 1>>]]] :
       order \in {o \in [1..4 -> 1..4] : IsInjective(o) /\ o[1] = 1}, fifth \in Axes}

SeedLikedLists == {<<1, 2, 3, 4>>, <<4, 3, 2, 1>>, <<1, 2>>}

\* random_state as the constructor resolves it: the environment's seed, else
\* the argument, else None.
RandomStates == {NoneValue} \cup {Some(seed) : seed \in 0..MaxSeed}

InitSeed ==
    /\ embedding \in SeedRuns
    /\ catalog = [g \in GameIds |-> NoGame]
    /\ recommendations = << >>
    /\ result = NoCall
    /\ Quiet
    /\ participants = {}

\* Any number of calls, one after the other, on recommenders that differ in
\* aggregation and random_state.
NextSeed ==
    \E liked_games \in SeedLikedLists, num_results \in 1..MaxResults,
       aggregation \in AggregationStrategy, random_state \in RandomStates :
       Recommend(liked_games, num_results, aggregation, random_state)

SpecSeed == InitSeed /\ [][NextSeed]_vars

----------------------------------------------------------------------------
(* The explanation providers (domain/recommendations/explainers.py):       *)
(* SimilarityExplanationProvider and FeatureHintExplanationProvider, each  *)
(* called on a ranked list, the liked games and the boardgames.  Scores    *)
(* and similarities are in thousandths; ranks count from 0 as enumerate    *)
(* does.                                                                   *)

POSITIVE == "positive"
NEUTRAL == "neutral"
NEGATIVE == "negative"

\* _similarity(a_id, b_id): None for an id the run lacks or a zero norm
_similarity(run, a_id, b_id) ==
    IF ~has_id(run, a_id) \/ ~has_id(run, b_id) THEN NoneValue
    ELSE LET a == run[id_index(run, a_id)].vec
             b == run[id_index(run, b_id)].vec
         IN IF Dot(a, a) = 0 \/ Dot(b, b) = 0 THEN NoneValue
            ELSE Some(Cosine(a, b))

\* The (liked_id, sim) pairs of the comparisons that succeeded, in liked order.
RECURSIVE SimsOf(_, _, _)
SimsOf(run, item_id, liked_list) ==
    IF liked_list = << >> THEN << >>
    ELSE LET sim == _similarity(run, item_id, Head(liked_list))
         IN (IF sim = NoneValue THEN << >>
             ELSE <<[bgg_id |-> Head(liked_list), score |-> sim[1]]>>)
            \o SimsOf(run, item_id, Tail(liked_list))

\* sims[shift:] + sims[:shift]
Rotated(sims, shift) == SubSeq(sims, shift + 1, Len(sims)) \o SubSeq(sims, 1, shift)

\* sims sorted by similarity, rotated for rank > 2, then sims[:max_references]
chosen_sims_uncapped(sims, rank, max_references) ==
    LET sorted == SortedByScoreDesc(sims)
    IN IF sorted = << >> THEN << >>
       ELSE IF rank > 2 THEN Rotated(sorted, rank % Len(sorted)) ELSE sorted

chosen_sims(sims, rank, max_references) ==
    LET sorted == SortedByScoreDesc(sims)
    IN IF sorted = << >> THEN << >>
       ELSE PySliceTo(IF rank > 2 THEN Rotated(sorted, rank % Len(sorted)) ELSE sorted,
                      max_references)

ReferenceExplanation(bgg_id, influence) ==
    [bgg_id |-> bgg_id, title |-> "", influence |-> influence]

\* rel = sim / best_score < 0.5, with best_score = sims[0][1] or 1e-9
RelBelowHalf(sim, best) ==
    IF best > 0 THEN 2 * sim < best
    ELSE IF best = 0 THEN sim < 1
    ELSE 2 * sim > best

\* The influence given to the reference at position idx (from 0) of sims.
influence_of_reference(sims, idx, allow_two_positive) ==
    IF idx = 0 \/ (allow_two_positive /\ idx = 1) THEN POSITIVE
    ELSE IF RelBelowHalf(sims[idx + 1].score, sims[1].score) \/ sims[idx + 1].score < 150
         THEN NEGATIVE
         ELSE NEUTRAL

ReplaceLast(refs, influence) ==
    [k \in 1..Len(refs) |->
        IF k = Len(refs) THEN [refs[k] EXCEPT !.influence = influence] ELSE refs[k]]

\* references_from_sims without the adjustment for weak items
references_from_sims_unforced(sims, rank, item_score, top_score) ==
    LET allow_two_positive ==
            /\ rank < 3 \/ (top_score > 0 /\ 100 * item_score >= 85 * top_score)
            /\ Len(sims) >= 2
        refs == [k \in 1..Len(sims) |->
                   ReferenceExplanation(
                       sims[k].bgg_id,
                       influence_of_reference(sims, k - 1, allow_two_positive))]
    IN IF Len(refs) > 1 /\ \A k \in 1..Len(refs) : refs[k].influence = POSITIVE
       THEN ReplaceLast(refs, NEUTRAL) ELSE refs

\* The references of one ranked item whose chosen sims are not empty.
references_from_sims(sims, rank, item_score, top_score) ==
    LET allow_two_positive ==
            /\ rank < 3 \/ (top_score > 0 /\ 100 * item_score >= 85 * top_score)
            /\ Len(sims) >= 2
        refs == [k \in 1..Len(sims) |->
                   ReferenceExplanation(
                       sims[k].bgg_id,
                       influence_of_reference(sims, k - 1, allow_two_positive))]
        toned == IF Len(refs) > 1 /\ \A k \in 1..Len(refs) : refs[k].influence = POSITIVE
                 THEN ReplaceLast(refs, NEUTRAL) ELSE refs
    IN IF Len(toned) > 1 /\ (rank >= 3 \/ (top_score > 0 /\ 10 * item_score < 7 * top_score))
       THEN ReplaceLast(toned, NEGATIVE) ELSE toned

\* The references of the item at rank (from 0): from the chosen sims, or with
\* no sims the first max_references liked games, all positive.
references_of(run, ranked, rank, liked_list, max_references) ==
    LET item == ranked[rank + 1]
        sims == chosen_sims(SimsOf(run, item.bgg_id, liked_list), rank, max_references)
    IN IF sims = << >>
       THEN LET first == PySliceTo(liked_list, max_references)
            IN [k \in 1..Len(first) |-> ReferenceExplanation(first[k], POSITIVE)]
       ELSE references_from_sims(sims, rank, item.score, ranked[1].score)

\* SimilarityExplanationProvider(max_references).add_explanations(ranked, liked_games);
\* load_embedding raises when there is no run to load.
similarity_add_explanations(store, ranked, liked_games, max_references) ==
    IF store = NoEmbedding
    THEN [outcome |-> "FileNotFoundError", explanations |-> << >>]
    ELSE [outcome |-> "ok",
          explanations |->
              [k \in 1..Len(ranked) |->
                  [type |-> "references", features |-> NoneValue,
                   references |-> Some(references_of(store.rows, ranked, k - 1,
                                                     KnownIds(store.rows, liked_games),
                                                     max_references))]]]

\* A feature label: its text, and the vocabulary terms its lowered text
\* contains, in the order of _MECHANICS_KEYWORDS / _THEME_KEYWORDS.
Label(text, terms) == [text |-> text, terms |-> terms]

\* _split_feature_labels(label, category)
_split_feature_labels(label, category) ==
    IF category = "genre" THEN <<label.text>>
    ELSE IF label.terms = << >> THEN <<label.text>>
    ELSE label.terms

\* _add over a list of labels of one category: empty and repeated labels are skipped.
RECURSIVE AddAll(_, _, _)
AddAll(suggestions, labels, category) ==
    IF labels = << >> THEN suggestions
    ELSE LET key == [label |-> Head(labels), category |-> category]
         IN AddAll(IF Head(labels).text # "" /\ key \notin Range(suggestions)
                   THEN Append(suggestions, key) ELSE suggestions,
                   Tail(labels), category)

\* _feature_hints(game): mechanics, themes, genre; the title if there are none
_feature_hints(game) ==
    LET tagged == AddAll(AddAll(AddAll(<< >>, game.mechanics, "mechanic"),
                                game.themes, "theme"),
                         game.genre, "genre")
    IN IF tagged = << >> THEN AddAll(<< >>, <<game.title>>, "theme") ELSE tagged

\* The (token, category) pairs of the hints, in the order the loops visit them.
RECURSIVE TokensOf(_)
TokensOf(hints) ==
    IF hints = << >> THEN << >>
    ELSE LET tokens == _split_feature_labels(Head(hints).label, Head(hints).category)
         IN [k \in 1..Len(tokens) |-> [label |-> tokens[k], category |-> Head(hints).category]]
            \o TokensOf(Tail(hints))

\* The loops stop appending once len(hints) >= max_features.
FirstTokens(game, max_features) ==
    IF max_features <= 0 THEN << >> ELSE PySliceTo(TokensOf(_feature_hints(game)), max_features)

FeatureExplanation(label, category, influence) ==
    [label |-> label, category |-> category, influence |-> influence]

\* boardgame_map = {bg.id: bg for bg in boardgames}; None is << >>
boardgame_map_get(boardgames, bgg_id) ==
    IF \E i \in 1..Len(boardgames) : boardgames[i].id = bgg_id
    THEN Some(boardgames[CHOOSE i \in 1..Len(boardgames) :
                           /\ boardgames[i].id = bgg_id
                           /\ \A j \in 1..Len(boardgames) :
                                boardgames[j].id = bgg_id => j <= i])
    ELSE NoneValue

\* liked_feature_sets[category]: the labels of that category of the liked
\* games that were compared and are in boardgame_map.
liked_feature_set(run, item_id, liked_list, boardgames, category) ==
    UNION {LET liked_game == boardgame_map_get(boardgames, liked_list[i])
           IN IF _similarity(run, item_id, liked_list[i]) = NoneValue \/ liked_game = NoneValue
              THEN {}
              ELSE {label.text : label \in Range(
                        IF category = "mechanic" THEN liked_game[1].mechanics
                        ELSE IF category = "theme" THEN liked_game[1].themes
                        ELSE liked_game[1].genre)} :
           i \in 1..Len(liked_list)}

\* The hints of a candidate compared against the liked games as the loop over
\* its tokens marks them, before the two adjustments.
marked_hints(run, item, candidate, liked_list, boardgames, max_features) ==
    LET sims == SortedByScoreDesc(SimsOf(run, item.bgg_id, liked_list))
        best_sim == IF sims = << >> THEN 0 ELSE sims[1].score
        tokens == FirstTokens(candidate, max_features)
    IN [k \in 1..Len(tokens) |->
          FeatureExplanation(
              tokens[k].label, tokens[k].category,
              IF /\ tokens[k].label \in liked_feature_set(run, item.bgg_id, liked_list,
                                                         boardgames, tokens[k].category)
                 /\ best_sim >= 400
              THEN POSITIVE
              ELSE IF best_sim < 200 THEN NEGATIVE ELSE NEUTRAL)]

\* The hints of a candidate compared against the liked games, after the two
\* adjustments.
compared_hints(run, item, rank, top_score, candidate, liked_list, boardgames, max_features) ==
    LET hints == marked_hints(run, item, candidate, liked_list, boardgames, max_features)
        ensured == IF hints # << >> /\ \A k \in 1..Len(hints) : hints[k].influence # POSITIVE
                   THEN [hints EXCEPT ![1].influence = POSITIVE]
                   ELSE hints
    IN IF Len(ensured) > 1 /\ (10 * item.score < 6 * top_score \/ rank >= 4)
       THEN ReplaceLast(ensured, NEGATIVE)
       ELSE ensured

\* The features of the item at rank (from 0).
features_of(run, ranked, rank, liked_list, boardgames, max_features) ==
    LET item == ranked[rank + 1]
        candidate == boardgame_map_get(boardgames, item.bgg_id)
    IN IF candidate = NoneValue THEN << >>
       ELSE IF liked_list = << >>
            THEN LET tokens == FirstTokens(candidate[1], max_features)
                 IN [k \in 1..Len(tokens) |->
                       FeatureExplanation(tokens[k].label, tokens[k].category, POSITIVE)]
            ELSE compared_hints(run, item, rank, ranked[1].score, candidate[1], liked_list,
                                boardgames, max_features)

\* FeatureHintExplanationProvider(max_features).add_explanations(ranked, liked_games, boardgames)
feature_add_explanations(store, ranked, liked_games, boardgames, max_features) ==
    IF store = NoEmbedding
    THEN [outcome |-> "FileNotFoundError", explanations |-> << >>]
    ELSE [outcome |-> "ok",
          explanations |->
              [k \in 1..Len(ranked) |->
                  [type |-> "features", references |-> NoneValue,
                   features |-> Some(features_of(store.rows, ranked, k - 1,
                                                 KnownIds(store.rows, liked_games),
                                                 boardgames, max_features))]]]

----------------------------------------------------------------------------
(* Calls of the two providers on a loaded run.  Games 1..3 are liked       *)
(* games, game 4 is a candidate and game 7 is in no run.                   *)

MaxRanked == 4        \* longest ranked list handed to add_explanations
MaxReferences == 2    \* largest max_references of a provider
MaxFeatures == 2      \* largest max_features of a provider

\* Game 2 may be a zero row and game 3 may be at a right angle to game 4.
ExplainRuns ==
    {[run_identifier |-> "run-1",
      rows |-> <<[bgg_id |-> 1, vec |-> <<1, 0>>], [bgg_id |-> 2, vec |-> second],
                 [bgg_id |-> 3, vec |-> third], [bgg_id |-> 4, vec |-> <<1, 0>>]>>] :
       second \in {<<1, 1>>, <<0, 0>>}, third \in {<<1, 1>>, <<0, 1>>}}

\* Ranked items: the candidate with the top score or a weak one, and an
\* unknown game.
RankedItems == {ScoredGameId(4, 1000), ScoredGameId(4, 500), ScoredGameId(7, 500)}

\* Ranked lists that name the unknown game at most once.
RankedLists ==
    {ranked \in SeqsUpTo(RankedItems, MaxRanked) :
        Cardinality({k \in 1..Len(ranked) : ranked[k].bgg_id = 7}) <= 1}

ExplainLikedLists == {s \in SeqsUpTo({1, 2, 3}, 3) : IsInjective(s)}

DiceRolling == Label("dice rolling", <<"dice rolling">>)
HandManagement == Label("hand management", <<"hand management">>)
DiceAndHand == Label("Dice Rolling, Hand Management", <<"dice rolling", "hand management">>)
Strategy == Label("strategy", << >>)

FeatureGame(id, mechanics, genre) ==
    [id |-> id, title |-> Label("Game", << >>), mechanics |-> mechanics, themes |-> << >>,
     genre |-> genre]

\* The boardgames handed over: the candidate, with or without liked game 1.
BoardgameLists ==
    {<<FeatureGame(4, mechanics, genre)>> \o liked :
       mechanics \in {<< >>, <<DiceRolling>>, <<DiceRolling, HandManagement>>, <<DiceAndHand>>},
       genre \in {<< >>, <<Strategy>>},
       liked \in {<< >>, <<FeatureGame(1, <<HandManagement>>, <<Strategy>>)>>}}

InitExplain ==
    /\ embedding \in ExplainRuns
    /\ catalog = [g \in GameIds |-> NoGame]
    /\ recommendations = << >>
    /\ result = NoCall
    /\ Quiet
    /\ participants = {}

\* SimilarityExplanationProvider(max_references).add_explanations(ranked, liked_games)
ExplainReferences(ranked, liked_games, max_references) ==
    /\ LET answer == similarity_add_explanations(embedding, ranked, liked_games,
                                                 max_references)
       IN result' = [op |-> "references", ranked |-> ranked, liked_games |-> liked_games,
                     max_references |-> max_references, outcome |-> answer.outcome,
                     explanations |-> answer.explanations]
    /\ UNCHANGED <<embedding, catalog, recommendations, enrichVars, embeddings_dir, loadVars,
                   authVars>>

\* FeatureHintExplanationProvider(max_features).add_explanations(ranked, liked_games, boardgames)
ExplainFeatures(ranked, liked_games, boardgames, max_features) ==
    /\ LET answer == feature_add_explanations(embedding, ranked, liked_games, boardgames,
                                              max_features)
       IN result' = [op |-> "features", ranked |-> ranked, liked_games |-> liked_games,
                     boardgames |-> boardgames, max_features |-> max_features,
                     outcome |-> answer.outcome, explanations |-> answer.explanations]
    /\ UNCHANGED <<embedding, catalog, recommendations, enrichVars, embeddings_dir, loadVars,
                   authVars>>

NextExplain ==
    \/ /\ result = NoCall
       /\ \E ranked \in RankedLists, liked_games \in ExplainLikedLists,
            max_references \in 1..MaxReferences :
            ExplainReferences(ranked, liked_games, max_references)
    \/ /\ result = NoCall
       /\ \E ranked \in RankedLists, liked_games \in {<< >>, <<1>>, <<2, 1>>},
            boardgames \in BoardgameLists, max_features \in 1..MaxFeatures :
            ExplainFeatures(ranked, liked_games, boardgames, max_features)

SpecExplain == InitExplain /\ [][NextExplain]_vars

----------------------------------------------------------------------------
(* Calls of the feature provider on candidates with mechanics, themes and  *)
(* genres, against liked games of which some are close to the candidate    *)
(* and some are not.                                                       *)

MaxHintRanked == 2    \* longest ranked list handed to the feature provider
MaxHints == 3         \* largest max_features of the feature provider

WorkerPlacement == Label("Worker Placement", <<"worker placement">>)
WorkerTypes == Label("Worker Placement, Different Worker Types", <<"worker placement">>)
Fantasy == Label("Fantasy", <<"fantasy">>)

TaggedGame(id, mechanics, themes, genre) ==
    [id |-> id, title |-> Label("Game", << >>), mechanics |-> mechanics, themes |-> themes,
     genre |-> genre]

\* Ranked items: the candidate with the top score or a weak one, and a game
\* that is in no run and has no boardgame record.
HintRankedLists == {ranked \in SeqsUpTo(RankedItems, MaxHintRanked) : ranked # << >>}

\* In every run game 1 lies on the candidate and game 2 is a zero row; game 3
\* may be at a right angle to the candidate.
HintRuns == {run \in ExplainRuns : run.rows[2].vec = <<0, 0>>}

HintLikedLists == {<<1>>, <<1, 3>>, <<2, 3>>}

\* The boardgames handed over: the candidate, and liked games 1 and 3 or
\* some of them, each with the mechanic and the genre the candidate may have.
HintBoardgameLists ==
    {<<TaggedGame(4, mechanics, themes, genre)>> \o liked :
       mechanics \in {<< >>, <<HandManagement>>, <<DiceAndHand>>,
                      <<WorkerPlacement, WorkerTypes>>},
       themes \in {<< >>, <<Fantasy>>},
       genre \in {<< >>, <<Strategy>>},
       liked \in {<< >>, <<FeatureGame(1, <<HandManagement>>, <<Strategy>>)>>,
                  <<FeatureGame(3, <<HandManagement>>, <<Strategy>>)>>,
                  <<FeatureGame(1, << >>, << >>),
                    FeatureGame(3, <<HandManagement>>, <<Strategy>>)>>}}

\* from_ranked when the explanations are paired with the games that are kept
RECURSIVE from_ranked_kept_first(_, _, _)
from_ranked_kept_first(ranked, explanations, boardgames) ==
    IF ranked = << >> \/ explanations = << >> THEN << >>
    ELSE LET bg == boardgame_map_get(boardgames, Head(ranked).bgg_id)
         IN IF bg = NoneValue
            THEN from_ranked_kept_first(Tail(ranked), explanations, boardgames)
            ELSE <<Selection(bg[1], Head(explanations))>>
                 \o from_ranked_kept_first(Tail(ranked), Tail(explanations), boardgames)

\* RecommendationResult.from_ranked(..., ranked, explanations, ..., boardgames):
\* the selections, one per zip(ranked, explanations) pair whose game has a
\* boardgame record
RECURSIVE from_ranked(_, _, _)
from_ranked(ranked, explanations, boardgames) ==
    IF ranked = << >> \/ explanations = << >> THEN << >>
    ELSE LET bg == boardgame_map_get(boardgames, Head(ranked).bgg_id)
         IN (IF bg = NoneValue THEN << >> ELSE <<Selection(bg[1], Head(explanations))>>)
            \o from_ranked(Tail(ranked), Tail(explanations), boardgames)

InitHints ==
    /\ embedding \in HintRuns
    /\ catalog = [g \in GameIds |-> NoGame]
    /\ recommendations = << >>
    /\ result = NoCall
    /\ Quiet
    /\ participants = {}

\* RecommendationResult.from_ranked on the ranked list and the explanations
\* the provider has just returned for it
FromRanked ==
    /\ result.op = "features"
    /\ result.outcome = "ok"
    /\ result' = [op |-> "from_ranked", ranked |-> result.ranked,
                  explanations |-> result.explanations, boardgames |-> result.boardgames,
                  selections |-> from_ranked(result.ranked, result.explanations,
                                             result.boardgames)]
    /\ UNCHANGED <<embedding, catalog, recommendations, enrichVars, embeddings_dir, loadVars,
                   authVars>>

NextHints ==
    \/ /\ result = NoCall
       /\ \E ranked \in HintRankedLists, liked_games \in HintLikedLists,
            boardgames \in HintBoardgameLists, max_features \in 1..MaxHints :
            ExplainFeatures(ranked, liked_games, boardgames, max_features)
    \/ FromRanked

SpecHints == InitHints /\ [][NextHints]_vars

----------------------------------------------------------------------------
(* The embeddings directory and the three ways the latest run is found     *)
(* (infrastructure/embeddings.py, utils/embedding.py, the CLI's            *)
(* utils/file.py).  save_embedding_run makes the run directory, writes the *)
(* vectors table and then the metadata document, and can stop after any of *)
(* the three.  A directory's mtime is the time an entry was last created   *)
(* in it; a directory that does not exist is treated by all three finders  *)
(* as one that lists nothing.                                              *)

MaxRunDirs == 2      \* most run directories under the embeddings directory

\* Run identifiers, as training names them after the time it ran.
RunNameOf ==
    <<"20250101_000001", "20250101_000002", "20250101_000003", "20250101_000004",
      "20250101_000005", "20250101_000006">>

RunNames == {RunNameOf[k] : k \in 1..Min(MaxRunDirs, Len(RunNameOf))}

DirEntry(name, mtime) ==
    [name |-> name, mtime |-> mtime, is_dir |-> TRUE, is_symlink |-> FALSE,
     has_vectors |-> FALSE, has_metadata |-> FALSE]

\* A regular file lying in the embeddings directory.
StrayFile ==
    [name |-> ".gitkeep", mtime |-> 0, is_dir |-> FALSE, is_symlink |-> FALSE,
     has_vectors |-> FALSE, has_metadata |-> FALSE]

\* The time of the next write: later than every mtime in the directory.
RECURSIVE LatestMtime(_)
LatestMtime(entries) ==
    IF entries = << >> THEN 0 ELSE Max(Head(entries).mtime, LatestMtime(Tail(entries)))

Now(entries) == LatestMtime(entries) + 1

\* [entry for entry in entries if keep(entry)], for the two filters in use
RECURSIVE Directories(_)
Directories(entries) ==
    IF entries = << >> THEN << >>
    ELSE (IF Head(entries).is_dir THEN <<Head(entries)>> ELSE << >>)
         \o Directories(Tail(entries))

RECURSIVE CompletedRuns(_)
CompletedRuns(entries) ==
    IF entries = << >> THEN << >>
    ELSE (IF /\ ~Head(entries).is_symlink
             /\ Head(entries).is_dir
             /\ Head(entries).has_vectors
             /\ Head(entries).has_metadata
          THEN <<Head(entries)>> ELSE << >>)
         \o CompletedRuns(Tail(entries))

\* max(dirs, key=lambda p: p.stat().st_mtime): the first of the latest
MaxByMtime(dirs) ==
    dirs[CHOOSE i \in 1..Len(dirs) :
           /\ \A j \in 1..Len(dirs) : dirs[j].mtime <= dirs[i].mtime
           /\ \A j \in 1..Len(dirs) : dirs[j].mtime = dirs[i].mtime => i <= j]

\* _find_latest_run(embeddings_dir) of the backend: the name, or None where
\* infrastructure/embeddings.py raises and utils/embedding.py returns None
_find_latest_run(entries) ==
    IF Directories(entries) = << >> THEN NoneValue
    ELSE Some(MaxByMtime(Directories(entries)))

\* find_latest_run_identifier(path) of the CLI
find_latest_run_identifier(entries) ==
    IF CompletedRuns(entries) = << >> THEN NoneValue
    ELSE Some(MaxByMtime(CompletedRuns(entries)))

\* The vectors table every saved run holds.
DiskRows == <<[bgg_id |-> 1, vec |-> <<1, 0>>]>>

\* load_embedding() / _load_embedding() with no run named: the selected
\* directory is loaded if its vectors table exists.
load_latest(entries, missing) ==
    LET latest == _find_latest_run(entries)
    IN IF latest = NoneValue
       THEN [outcome |-> missing, selected |-> NoneValue, store |-> NoEmbedding]
       ELSE IF ~latest[1].has_vectors
            THEN [outcome |-> missing, selected |-> Some(latest[1].name),
                  store |-> NoEmbedding]
            ELSE [outcome |-> "ok", selected |-> Some(latest[1].name),
                  store |-> [run_identifier |-> latest[1].name, rows |-> DiskRows]]

HasEntry(entries, name) == \E i \in 1..Len(entries) : entries[i].name = name

EntryOf(entries, name) == entries[CHOOSE i \in 1..Len(entries) : entries[i].name = name]

InitDisk ==
    /\ embedding = NoEmbedding
    /\ catalog = [g \in GameIds |-> NoGame]
    /\ recommendations = << >>
    /\ result = NoCall
    /\ bgg = BggOff
    /\ pool = IdlePool
    /\ embeddings_dir \in {<< >>, <<StrayFile>>}
    /\ Unloaded
    /\ session = NoSession
    /\ participants = {}

diskFrame == <<catalog, recommendations, enrichVars, authVars, loadVars>>

\* save_embedding_run: run_dir.mkdir(parents=True, exist_ok=True)
MakeRunDirectory(name) ==
    /\ ~HasEntry(embeddings_dir, name)
    /\ embeddings_dir' = Append(embeddings_dir, DirEntry(name, Now(embeddings_dir)))
    /\ UNCHANGED <<embedding, result, diskFrame>>

\* save_embedding_run: embedding.vectors.write_parquet(vectors_path)
WriteVectors(name) ==
    /\ HasEntry(embeddings_dir, name)
    /\ ~EntryOf(embeddings_dir, name).has_vectors
    /\ embeddings_dir' =
         [k \in 1..Len(embeddings_dir) |->
            IF embeddings_dir[k].name = name
            THEN [embeddings_dir[k] EXCEPT !.has_vectors = TRUE,
                                           !.mtime = Now(embeddings_dir)]
            ELSE embeddings_dir[k]]
    /\ UNCHANGED <<embedding, result, diskFrame>>

\* save_embedding_run: metadata_path.write_text(metadata_json)
WriteMetadata(name) ==
    /\ HasEntry(embeddings_dir, name)
    /\ EntryOf(embeddings_dir, name).has_vectors
    /\ ~EntryOf(embeddings_dir, name).has_metadata
    /\ embeddings_dir' =
         [k \in 1..Len(embeddings_dir) |->
            IF embeddings_dir[k].name = name
            THEN [embeddings_dir[k] EXCEPT !.has_metadata = TRUE,
                                           !.mtime = Now(embeddings_dir)]
            ELSE embeddings_dir[k]]
    /\ UNCHANGED <<embedding, result, diskFrame>>

\* infrastructure.embeddings.load_embedding(use_cache=False)
LoadEmbedding ==
    /\ LET loaded == load_latest(embeddings_dir, "FileNotFoundError")
       IN /\ result' = [op |-> "load_embedding", outcome |-> loaded.outcome,
                        selected |-> loaded.selected,
                        run_identifier |-> loaded.store.run_identifier]
          /\ embedding' = IF loaded.outcome = "ok" THEN loaded.store ELSE embedding
    /\ UNCHANGED <<embeddings_dir, diskFrame>>

\* utils.embedding._load_embedding()
LoadEmbeddingStore ==
    /\ LET loaded == load_latest(embeddings_dir, "None")
       IN /\ result' = [op |-> "_load_embedding", outcome |-> loaded.outcome,
                        selected |-> loaded.selected,
                        run_identifier |-> loaded.store.run_identifier]
          /\ embedding' = IF loaded.outcome = "ok" THEN loaded.store ELSE embedding
    /\ UNCHANGED <<embeddings_dir, diskFrame>>

\* boardgames recommend with no --run-identifier: find_latest_run_identifier
FindLatestRunIdentifier ==
    /\ LET latest == find_latest_run_identifier(embeddings_dir)
       IN result' = IF latest = NoneValue
                    THEN [op |-> "find_latest_run_identifier", outcome |-> "SystemExit",
                          selected |-> NoneValue, run_identifier |-> "none"]
                    ELSE [op |-> "find_latest_run_identifier", outcome |-> "ok",
                          selected |-> Some(latest[1].name),
                          run_identifier |-> latest[1].name]
    /\ UNCHANGED <<embedding, embeddings_dir, diskFrame>>

NextDisk ==
    \/ \E name \in RunNames : MakeRunDirectory(name)
    \/ \E name \in RunNames : WriteVectors(name)
    \/ \E name \in RunNames : WriteMetadata(name)
    \/ LoadEmbedding
    \/ LoadEmbeddingStore
    \/ FindLatestRunIdentifier

SpecDisk == InitDisk /\ [][NextDisk]_vars

----------------------------------------------------------------------------
(* Request threads in load_embedding() (infrastructure/embeddings.py).     *)
(* The routes are plain functions, so the server runs each request on a   *)
(* worker thread; recommender and explainers call load_embedding() with   *)
(* no run named.  The application has loaded the latest run once at       *)
(* startup; the CLI may save further runs while the server is up.         *)

MaxCalls == 2   \* most calls of load_embedding a thread makes

Threads == {"t1", "t2"}

\* The Embeddings object a call constructs; no two calls construct the same.
Embeddings(run_identifier, thread, call) ==
    [run_identifier |-> run_identifier, thread |-> thread, call |-> call]

\* A thread outside load_embedding after calls calls, holding what they returned.
Outside(calls, returned) ==
    [pc |-> "outside", calls |-> calls, run |-> "none", embedding |-> NoneValue,
     returned |-> returned]

StartupRun == [DirEntry(RunNameOf[1], 1) EXCEPT !.has_vectors = TRUE, !.has_metadata = TRUE]

InitLoad ==
    /\ embedding = NoEmbedding
    /\ catalog = [g \in GameIds |-> NoGame]
    /\ recommendations = << >>
    /\ result = NoCall
    /\ bgg = BggOff
    /\ pool = IdlePool
    /\ embeddings_dir = <<StartupRun>>
    /\ participants = {}
    /\ session = NoSession
    /\ _EMBEDDING_CACHE = [run \in {RunNameOf[1]} |-> Embeddings(run, "main", 0)]
    /\ loaders = [t \in Threads |-> Outside(0, {})]
    /\ clock = 0

loadFrame == <<embedding, catalog, recommendations, result, enrichVars, embeddings_dir,
               authVars, clock>>

\* load_embedding(): run = ... or _find_latest_run(embeddings_dir);
\* if use_cache and run in cache: return cache[run]
EnterLoad(t) ==
    /\ loaders[t].pc = "outside"
    /\ loaders[t].calls < MaxCalls
    /\ LET latest == _find_latest_run(embeddings_dir)
           calls == loaders[t].calls + 1
       IN loaders' =
            [loaders EXCEPT ![t] =
               IF latest = NoneValue
               THEN Outside(calls, loaders[t].returned)
               ELSE IF latest[1].name \in DOMAIN _EMBEDDING_CACHE
                    THEN Outside(calls, loaders[t].returned
                                          \cup {_EMBEDDING_CACHE[latest[1].name]})
                    ELSE [pc |-> "missed", calls |-> calls, run |-> latest[1].name,
                          embedding |-> NoneValue, returned |-> loaders[t].returned]]
    /\ UNCHANGED <<_EMBEDDING_CACHE, loadFrame>>

\* if not vectors_path.exists(): raise FileNotFoundError; otherwise read the
\* table and construct embedding = Embeddings(run_identifier=run, ...)
BuildEmbeddings(t) ==
    /\ loaders[t].pc = "missed"
    /\ loaders' =
         [loaders EXCEPT ![t] =
            IF ~EntryOf(embeddings_dir, loaders[t].run).has_vectors
            THEN Outside(loaders[t].calls, loaders[t].returned)
            ELSE [loaders[t] EXCEPT
                    !.pc = "built",
                    !.embedding = Some(Embeddings(loaders[t].run, t, loaders[t].calls))]]
    /\ UNCHANGED <<_EMBEDDING_CACHE, loadFrame>>

\* cache[run] = embedding; ...; return embedding
PublishEmbeddings(t) ==
    /\ loaders[t].pc = "built"
    /\ _EMBEDDING_CACHE' =
         map_put(_EMBEDDING_CACHE, loaders[t].run, loaders[t].embedding[1])
    /\ loaders' = [loaders EXCEPT ![t] =
                     Outside(loaders[t].calls,
                             loaders[t].returned \cup {loaders[t].embedding[1]})]
    /\ UNCHANGED loadFrame

NextLoad ==
    \/ \E name \in RunNames : MakeRunDirectory(name)
    \/ \E name \in RunNames : WriteVectors(name)
    \/ \E name \in RunNames : WriteMetadata(name)
    \/ \E t \in Threads : EnterLoad(t)
    \/ \E t \in Threads : BuildEmbeddings(t)
    \/ \E t \in Threads : PublishEmbeddings(t)

SpecLoad == InitLoad /\ [][NextLoad]_vars

----------------------------------------------------------------------------
(* Trainings by the CLI, one after the other (cli.py: Embedding.train,     *)
(* then save_embedding_run), on a host whose clock may or may not have     *)
(* reached the next second between two of them.                            *)

MaxClock == 3       \* the last second the clock reaches
MaxTrainings == 4   \* most trainings run

\* datetime.now(timezone.utc).strftime("%Y%m%d_%H%M%S") at the given second
run_identifier_at(seconds) == RunNameOf[seconds + 1]

\* save_embedding_run(embedding, embeddings_dir): mkdir(parents=True,
\* exist_ok=True), then the vectors table and the metadata document are
\* written, over those of the directory if it was there
save_embedding_run(entries, name) ==
    LET saved == [DirEntry(name, Now(entries)) EXCEPT !.has_vectors = TRUE,
                                                      !.has_metadata = TRUE]
    IN IF HasEntry(entries, name)
       THEN [k \in 1..Len(entries) |-> IF entries[k].name = name THEN saved ELSE entries[k]]
       ELSE Append(entries, saved)

InitTrain ==
    /\ embedding = NoEmbedding
    /\ catalog = [g \in GameIds |-> NoGame]
    /\ recommendations = << >>
    /\ result = NoCall
    /\ Quiet
    /\ participants = {}

\* a second passes
Tick ==
    /\ clock < MaxClock
    /\ clock' = clock + 1
    /\ UNCHANGED <<embedding, catalog, recommendations, result, enrichVars, embeddings_dir,
                   authVars, _EMBEDDING_CACHE, loaders>>

\* boardgames train: the run is trained, named after the second the training
\* ended in, and saved
TrainAndSave ==
    /\ LatestMtime(embeddings_dir) < MaxTrainings
    /\ embeddings_dir' = save_embedding_run(embeddings_dir, run_identifier_at(clock))
    /\ result' = [op |-> "train", run_identifier |-> run_identifier_at(clock),
                  saved_at |-> Now(embeddings_dir)]
    /\ UNCHANGED <<embedding, catalog, recommendations, enrichVars, authVars, loadVars>>

NextTrain ==
    \/ Tick
    \/ TrainAndSave

SpecTrain == InitTrain /\ [][NextTrain]_vars

----------------------------------------------------------------------------
(* Sessions (http/auth.py, domain/participants/routes.py, app.py).  The    *)
(* session is the signed session_id cookie SessionMiddleware issues; the   *)
(* client sends with each request the cookie the last response left it.   *)

Established(participant_id) ==
    [session_id |-> Some("signed"), participant_id |-> Some(participant_id)]

\* require_session(request, session_id): the participant id, or 401
require_session(sess) ==
    IF sess.participant_id = NoneValue \/ sess.session_id = NoneValue
    THEN [status |-> 401, participant_id |-> NoneValue]
    ELSE [status |-> 200, participant_id |-> sess.participant_id]

\* invalidate_session(request, session_id): require_session, then session.clear()
invalidate_session_keeps_session(sess) ==
    [status |-> require_session(sess).status, session |-> sess]

invalidate_session(sess) ==
    IF require_session(sess).status = 401
    THEN [status |-> 401, session |-> sess]
    ELSE [status |-> 204, session |-> NoSession]

\* The ids a client may send to POST /session: participant ids, and one
\* without the "participant-" prefix.
SessionPayloadIds == Participants \cup {"anonymous"}

\* get_participant(participant_id, db): the errors it raises have no handler
get_participant(table, participant_id) ==
    IF participant_id \notin Participants THEN "ParticipantValidationError"
    ELSE IF participant_id \notin table THEN "ParticipantNotFoundError"
    ELSE "ok"

Unauthorized(op) == [op |-> op, status |-> 401, outcome |-> "HTTP_401"]

AuthRun ==
    [run_identifier |-> "run-1",
     rows |-> [k \in 1..Cardinality(GameIds) |->
                 [bgg_id |-> OrderById(GameIds)[k], vec |-> SampleVec(OrderById(GameIds)[k])]]]

AuthCatalog ==
    [g \in GameIds |->
       GameOf(g, [min_players |-> 3, max_players |-> 5, playing_time_minutes |-> 45])]

\* A request that can be answered 201 and one that is answered 400.
AuthRequests ==
    {[liked_games |-> liked, play_context |-> [players |-> 3, duration |-> "none"],
      num_results |-> 1] : liked \in {<<1>>, << >>}}

InitAuth ==
    /\ embedding = AuthRun
    /\ catalog = AuthCatalog
    /\ recommendations = [r \in RecIds |-> NoRecord]
    /\ result = NoCall
    /\ Quiet
    /\ participants = {}

\* POST /participant: a participant under a fresh id
CreateParticipant ==
    /\ \E participant_id \in Participants \ participants :
         /\ participants' = participants \cup {participant_id}
         /\ result' = [op |-> "create_participant", status |-> 201,
                       participant_id |-> participant_id]
    /\ UNCHANGED <<embedding, catalog, recommendations, enrichVars, embeddings_dir,
                   loadVars, session>>

\* POST /session: look the participant up, then write the session
CreateParticipantSession(participant_id) ==
    /\ LET found == get_participant(participants, participant_id)
       IN IF found = "ok"
          THEN /\ session' = Established(participant_id)
               /\ result' = [op |-> "post_session", status |-> 200,
                             participant_id |-> participant_id]
          ELSE /\ session' = session
               /\ result' = [op |-> "post_session", status |-> 500,
                             participant_id |-> participant_id]
    /\ UNCHANGED <<embedding, catalog, recommendations, enrichVars, embeddings_dir, loadVars,
                   participants>>

\* DELETE /session
TerminateParticipantSession ==
    /\ LET ended == invalidate_session(session)
       IN /\ session' = ended.session
          /\ result' = [op |-> "delete_session", status |-> ended.status]
    /\ UNCHANGED <<embedding, catalog, recommendations, enrichVars, embeddings_dir, loadVars,
                   participants>>

\* POST /recommendation behind Security(require_session)
ProtectedCreate(request) ==
    IF require_session(session).status = 401
    THEN /\ result' = Unauthorized("create")
         /\ UNCHANGED <<embedding, catalog, recommendations, enrichVars, embeddings_dir, loadVars,
                        authVars>>
    ELSE PostRecommendation(require_session(session).participant_id[1], request)

\* GET /recommendation/{id} behind Security(require_session)
ProtectedRetrieve(recommendation_id) ==
    IF require_session(session).status = 401
    THEN /\ result' = Unauthorized("get")
         /\ UNCHANGED <<embedding, catalog, recommendations, enrichVars, embeddings_dir, loadVars,
                        authVars>>
    ELSE GetRecommendation(recommendation_id, require_session(session).participant_id[1])

NextAuth ==
    \/ CreateParticipant
    \/ \E participant_id \in SessionPayloadIds : CreateParticipantSession(participant_id)
    \/ TerminateParticipantSession
    \/ \E request \in AuthRequests : ProtectedCreate(request)
    \/ \E recommendation_id \in RecIds : ProtectedRetrieve(recommendation_id)

SpecAuth == InitAuth /\ [][NextAuth]_vars

----------------------------------------------------------------------------
(* Saves over a metadata cache whose rows have an age                      *)

MaxCached == 2   \* most selections of a result saved over the aged cache
TTL == 7         \* BGG_METADATA_TTL_SECONDS, a week by default, in days

\* BggMetadataFetcher._is_stale(cached), asked on the day now
_is_stale(cached, now) == TTL <= 0 \/ now - cached.fetched_at > TTL

\* Rows written on day 1: a complete one, and one that holds an image only.
CacheRows ==
    {Some(BggMetadata(Some("cached"), Some("cached.png"), 1)),
     Some(BggMetadata(NoneValue, Some("cached.png"), 1))}

CacheStates == UNION {[ids -> CacheRows] : ids \in SUBSET (1..MaxCached)}

\* Environments with a clock: the rows of day 1 are exactly TTL days old, and
\* so still fresh, or one day older.
CacheEnvironments ==
    [access_token : BOOLEAN, fetch_enabled : BOOLEAN, cache : CacheStates,
     now : {TTL + 1, TTL + 2}]

\* What fetch_metadata_live returns on the day now: description and image,
\* a description only, or None.
LiveOutcomes(now) ==
    {Some(BggMetadata(Some("fresh"), Some("fresh.png"), now)),
     Some(BggMetadata(Some("fresh"), NoneValue, now)),
     NoneValue}

InitCache ==
    /\ embedding = NoEmbedding
    /\ catalog = [g \in GameIds |-> NoGame]
    /\ recommendations = [r \in RecIds |-> NoRecord]
    /\ result = NoCall
    /\ bgg \in CacheEnvironments
    /\ pool = IdlePool
    /\ embeddings_dir = << >>
    /\ Unloaded
    /\ participants = Participants
    /\ session = NoSession

NextCache ==
    \/ \E n \in 1..MaxCached : BeginSave(EnrichResult(n))
    \/ WorkerTakes
    \/ \E k \in 1..MaxCached, metadata \in LiveOutcomes(bgg.now) : FetchReturns(k, metadata)
    \/ \E k \in 1..MaxCached : FetchRaises(k)
    \/ CommitSave

SpecCache == InitCache /\ [][NextCache]_vars

----------------------------------------------------------------------------
(* State of the service over a catalogue as large as the candidate limit.  *)

MaxCatalog == 201   \* most games of a catalogue: one more than the candidate limit

\* a game every sampled play context admits, and one only four players may play
WideGame(id) == GameOf(id, [min_players |-> 3, max_players |-> 5, playing_time_minutes |-> 45])
NarrowGame(id) == GameOf(id, [min_players |-> 4, max_players |-> 4, playing_time_minutes |-> 45])

\* the last ids of the largest catalogue
LastIds == (MaxCatalog - 2)..MaxCatalog

\* Catalogues of games 1..size, one of games 2 and 3 the narrow game or none.
PoolCatalogs ==
    {[g \in 1..MaxCatalog |->
        IF g > size THEN NoGame ELSE IF g = narrow THEN NarrowGame(g) ELSE WideGame(g)] :
        size \in LastIds, narrow \in {0, 3}}

\* Runs with rows for games 1 and 2 and for any of the last ids, rows in
\* ascending id order.
PoolRuns ==
    {[run_identifier |-> "run-1",
      rows |-> [k \in 1..Cardinality(S) |->
                  [bgg_id |-> OrderById(S)[k], vec |-> SampleVec(OrderById(S)[k])]]] :
        S \in {{1, 2} \cup T : T \in SUBSET LastIds}}

PoolRequests ==
    [liked_games : {<<1>>, <<1, 2>>},
     play_context : [players : PlayerCounts, duration : {SHORT, "none"}],
     num_results : 1..MaxResults]

InitPool ==
    /\ embedding \in PoolRuns
    /\ catalog \in PoolCatalogs
    /\ recommendations = [r \in RecIds |-> NoRecord]
    /\ result = NoCall
    /\ Quiet
    /\ participants = Participants

\* One request against each catalogue and run.
NextPool ==
    /\ result = NoCall
    /\ \E request \in PoolRequests : PostRecommendation("p1", request)

SpecPool == InitPool /\ [][NextPool]_vars

----------------------------------------------------------------------------
(* Properties of the ranking core.                                         *)

IdsOf(ranked) == {ranked[k].bgg_id : k \in 1..Len(ranked)}
CandidateIdsOf(scored) == {scored[k].candidate.id : k \in 1..Len(scored)}
RunIds(run) == {run.rows[k].bgg_id : k \in 1..Len(run.rows)}
VecOfId(run, bgg_id) == run.rows[CHOOSE k \in 1..Len(run.rows) : run.rows[k].bgg_id = bgg_id].vec

\* C1: no ranked list that the recommender returns, and no scored list that
\* the embedding scorer returns, contains an id that was supplied as liked.
C1_LikedNeverRanked ==
    /\ result.op = "recommend" => IdsOf(result.ranked) \cap Range(result.liked_games) = {}
    /\ result.op = "run_pipeline" =>
         /\ CandidateIdsOf(result.scored) \cap Range(result.liked_games) = {}
         /\ \A k \in 1..Len(result.selections) :
              result.selections[k].boardgame.id \notin Range(result.liked_games)

\* recommend ranked something although a liked game has an embedding row
C1_Witness ==
    /\ result.op = "recommend"
    /\ result.ranked # << >>
    /\ result.ranked[1].score > 0
    /\ Range(result.liked_games) \cap RunIds(embedding) # {}

\* C2: for num_results N >= 1, recommend returns at most N ranked ids and the
\* pipeline returns at most N selections.
C2_AtMostN ==
    /\ (result.op = "recommend" /\ result.num_results >= 1) =>
         Len(result.ranked) <= result.num_results
    /\ (result.op = "run_pipeline" /\ result.num_results >= 1) =>
         Len(result.selections) <= result.num_results

\* recommend cut a longer ranking down to exactly N
C2_Witness ==
    /\ result.op = "recommend"
    /\ result.num_results >= 1
    /\ Len(result.ranked) = result.num_results
    /\ result.ranked[1].score > 0
    /\ Cardinality(RunIds(embedding) \ Range(result.liked_games)) > result.num_results

\* the list is in score-descending order with equal scores in ascending id order
OrderedByScoreThenId(ranked) ==
    \A i, j \in 1..Len(ranked) :
        i < j => \/ ranked[i].score > ranked[j].score
                 \/ /\ ranked[i].score = ranked[j].score
                    /\ ranked[i].bgg_id < ranked[j].bgg_id

\* C3: the recommendations returned are ordered by score descending, with any
\* two candidates of equal score in ascending id order.
C3_ScoreDescThenIdAsc ==
    /\ result.op = "recommend" => OrderedByScoreThenId(result.ranked)
    /\ result.op = "run_pipeline" =>
         OrderedByScoreThenId([k \in 1..Len(result.top) |->
             ScoredGameId(result.top[k].candidate.id, result.top[k].score)])

\* The score of a game computed from that game's own row.
OwnScore(run, bgg_id, preference_vectors, aggregation) ==
    LET row == [j \in 1..Len(preference_vectors) |->
                  Cosine(VecOfId(run, bgg_id), preference_vectors[j])]
    IN IF aggregation = MAX THEN SeqMax(row) ELSE SeqSum(row) \div Len(preference_vectors)

\* C4: in what recommend returns, every id is a non-liked id of the run, no id
\* appears twice, each score is the one computed from that id's own vector, and
\* every non-liked id of the run was scored (the list is as long as N allows).
C4_ScoresAligned ==
    result.op = "recommend" /\ result.outcome = "ok" =>
        LET candidates == RunIds(embedding) \ Range(result.liked_games)
        IN /\ IdsOf(result.ranked) \subseteq candidates
           /\ Cardinality(IdsOf(result.ranked)) = Len(result.ranked)
           /\ Len(result.ranked) = Min(result.num_results, Cardinality(candidates))
           /\ \A k \in 1..Len(result.ranked) :
                result.ranked[k].score =
                    OwnScore(embedding, result.ranked[k].bgg_id,
                             result.preference_vectors, result.aggregation)

\* recommend ranked two games of different score while a liked row sits before
\* them in the run, so an unmasked matrix would shift every score
C4_Witness ==
    /\ result.op = "recommend"
    /\ Len(result.ranked) >= 2
    /\ result.ranked[1].score # result.ranked[2].score
    /\ embedding.rows[1].bgg_id \in Range(result.liked_games)

----------------------------------------------------------------------------
(* Properties of the service.                                              *)

\* the request passes the schema: 1..100 results, a player count, and a
\* non-empty list of distinct positive liked ids
SchemaValid(request) ==
    /\ request.num_results >= 1 /\ request.num_results <= 100
    /\ request.play_context.players >= 1
    /\ request.liked_games # << >>
    /\ IsInjective(request.liked_games)
    /\ \A k \in 1..Len(request.liked_games) : request.liked_games[k] >= 1

\* the game satisfies the play context: min_players <= P <= max_players and
\* playing time within the duration bucket (short 45, medium 90, long 240)
FitsContext(game, play_context) ==
    /\ game.min_players <= play_context.players
    /\ play_context.players <= game.max_players
    /\ play_context.duration = SHORT => game.playing_time_minutes <= 45
    /\ play_context.duration = MEDIUM => game.playing_time_minutes <= 90
    /\ play_context.duration = LONG => game.playing_time_minutes <= 240

CatalogGames == {catalog[g] : g \in {h \in GameIds : catalog[h] # NoGame}}

\* the liked ids that make the list invalid: non-positive, repeated, or
\* without a row in the loaded run
OffendingLiked(liked_games) ==
    {liked_games[k] : k \in {i \in 1..Len(liked_games) :
        \/ liked_games[i] < 1
        \/ \E j \in 1..Len(liked_games) : j # i /\ liked_games[j] = liked_games[i]
        \/ liked_games[i] \notin RunIds(embedding)}}

\* C5: with a run loaded, a request whose liked ids are empty, repeated,
\* non-positive or absent from the run is answered 400 with an input error
\* that names every offending id, and never with recommendations.
C5_InvalidLikedRejectedByName ==
    ( /\ result.op = "create"
      /\ embedding # NoEmbedding
      /\ result.request.num_results >= 1
      /\ result.request.liked_games = << >>
           \/ OffendingLiked(result.request.liked_games) # {} )
    => /\ result.status = 400
       /\ result.error \in {"RequestValidationError", "RecommendationInputError"}
       /\ result.selections = << >>
       /\ OffendingLiked(result.request.liked_games) \subseteq result.named

\* the games left after context filtering and removal of the liked games
Eligible(request) ==
    {game \in CatalogGames :
        FitsContext(game, request.play_context) /\ game.id \notin Range(request.liked_games)}

\* C6: a valid request, with a run loaded that holds all its liked ids, for
\* which no eligible candidate remains is answered 400, never 5xx.
C6_NoCandidatesIsBadRequest ==
    ( /\ result.op = "create"
      /\ SchemaValid(result.request)
      /\ embedding # NoEmbedding
      /\ Range(result.request.liked_games) \subseteq RunIds(embedding)
      /\ Eligible(result.request) = {} )
    => result.status = 400

\* C7: with no embedding run loaded, a valid request fails with the
\* availability error and status 503, never with a 4xx input error.
C7_MissingRunIsUnavailable ==
    (result.op = "create" /\ SchemaValid(result.request) /\ embedding = NoEmbedding)
    => result.status = 503 /\ result.error = "RecommendationUnavailableError"

\* C8: every game of the candidate pool, and every game recommended, satisfies
\* min_players <= P <= max_players and the duration's playing-time cap.
C8_PoolWithinContext ==
    result.op = "create" =>
        /\ \A k \in 1..Len(result.candidates) :
             FitsContext(result.candidates[k], result.request.play_context)
        /\ \A k \in 1..Len(result.selections) :
             FitsContext(result.selections[k].boardgame, result.request.play_context)

\* recommendations were returned while an embedded, non-liked catalogue game
\* was kept out by the play context
C8_Witness ==
    /\ result.op = "create"
    /\ result.status = 201
    /\ result.selections # << >>
    /\ \E game \in CatalogGames :
         /\ ~FitsContext(game, result.request.play_context)
         /\ game.id \in RunIds(embedding)
         /\ game.id \notin Range(result.request.liked_games)

----------------------------------------------------------------------------
(* Properties of the store.                                                *)

\* C9: a stored recommendation is returned only to the participant who owns
\* it; another participant is refused as unauthorized; an id with no stored
\* record gives the not-found outcome.
C9_OnlyOwnerRetrieves ==
    result.op = "get" =>
        LET record == recommendations[result.recommendation_id]
        IN IF record = NoRecord
           THEN result.outcome = "RecommendationNotFoundError"
           ELSE IF record.participant_id # result.participant_id
           THEN /\ result.outcome = "RecommendationUnauthorizedError"
                /\ result.recommendation = NoResult
           ELSE /\ result.outcome = "ok"
                /\ result.recommendation.id = result.recommendation_id
                /\ result.recommendation.participant_id = result.participant_id

\* a participant asked for a recommendation another participant owns
C9_Witness ==
    /\ result.op = "get"
    /\ recommendations[result.recommendation_id] # NoRecord
    /\ recommendations[result.recommendation_id].participant_id # result.participant_id
    /\ result.outcome = "RecommendationUnauthorizedError"

\* C10: loading a result by id right after saving it gives the same
\* selections in the same order, each with the same boardgame and the same
\* explanation (type, feature labels, references and every influence).
C10_SaveLoadRoundTrip ==
    result.op = "save" =>
        LET loaded == get(recommendations, result.saved.id)
        IN /\ loaded # NoResult
           /\ loaded.id = result.saved.id
           /\ loaded.selections = result.saved.selections

\* a result of two different selections, with influences of both signs, was saved
C10_Witness ==
    /\ result.op = "save"
    /\ Len(result.saved.selections) = 2
    /\ result.saved.selections[1] # result.saved.selections[2]
    /\ result.saved.selections[1].explanation.references # NoneValue

----------------------------------------------------------------------------
(* Properties of saving with metadata enrichment.                          *)

\* a step in which a save that fetched metadata ends
SaveEnds == pool.phase = "fetching" /\ pool'.phase = "idle"

\* the record the table holds for the result whose save ends
CommittedRecord == recommendations'[pool.res.id]

\* C11: persisting a result is an idempotent upsert keyed by its id: a save
\* of the result that was saved last leaves the table as the first save left
\* it, one record for that id with the same content.
C11_SaveTwiceSameStore ==
    [][(SaveEnds /\ result.op = "save" /\ result.saved = pool.res)
          => recommendations' = recommendations]_vars

\* C11, the write of a request: a POST answered 201 writes exactly one
\* record, under the id it returns, and any other POST writes none.
C11_OneWritePerRequest ==
    [][(result = NoCall /\ result'.op = "create")
          => IF result'.status = 201
             THEN /\ recommendations[result'.id] = NoRecord
                  /\ recommendations'[result'.id] # NoRecord
                  /\ \A r \in RecIds \ {result'.id} :
                        recommendations'[r] = recommendations[r]
             ELSE recommendations' = recommendations]_vars

\* C17: while save fetches metadata, at most 8 fetches are in flight.
C17_AtMostEightInFlight ==
    pool.phase = "fetching" => Cardinality(pool.running) <= 8

\* eight fetches are in flight while a ninth submitted task waits
C17_Witness ==
    /\ pool.phase = "fetching"
    /\ Cardinality(pool.running) = 8
    /\ pool.started < Len(pool.res.selections)

\* C18: whatever fetches fail, a save that fetched metadata ends only after
\* every fetch has completed, and it ends by committing one record that holds
\* every selection in order, a selection whose fetch failed carrying the
\* cached description when there is one and the boardgame's own otherwise.
C18_FailedFetchesDegrade ==
    [][SaveEnds
          => /\ DOMAIN pool.metadata_map =
                  {pool.res.selections[k].boardgame.id :
                      k \in 1..Len(pool.res.selections)}
             /\ result'.op = "save" /\ result'.saved = pool.res
             /\ CommittedRecord # NoRecord
             /\ Len(CommittedRecord.recommendations) = Len(pool.res.selections)
             /\ \A k \in 1..Len(pool.res.selections) :
                  LET game == pool.res.selections[k].boardgame
                      stored == CommittedRecord.recommendations[k].boardgame
                  IN /\ stored.id = game.id
                     /\ pool.metadata_map[game.id] = NoneValue
                          => stored.description =
                               (IF game.id \in DOMAIN bgg.cache
                                THEN "cached" ELSE game.description)]_vars

\* a save has committed a record in which the fetch of game 1 failed and fell
\* back on the cache, and the fetch of game 2 succeeded
C18_Witness ==
    /\ result.op = "save"
    /\ pool = IdlePool
    /\ bgg.access_token /\ bgg.fetch_enabled
    /\ recommendations["rec-1"] # NoRecord
    /\ Len(recommendations["rec-1"].recommendations) >= 3
    /\ recommendations["rec-1"].recommendations[1].boardgame.description = "cached"
    /\ recommendations["rec-1"].recommendations[2].boardgame.description = "fresh"
    /\ recommendations["rec-1"].recommendations[3].boardgame.description = "baseline"

----------------------------------------------------------------------------
(* Properties of the preference-vector builder.                            *)

\* clamp(x, lo, hi)
Clamp(x, lo, hi) == Max(lo, Min(x, hi))

\* floor(L x scaling_factor) for the factor num/den
FloorScaled(liked_count, factor) == (liked_count * factor[1]) \div factor[2]

\* C12 as stated: the centroid count for L liked rows is 1 when
\* L < max(1, min_samples_per_centroid); otherwise clamp(floor(L x factor), 1, L)
\* under the dynamic policy and clamp(L div min_samples_per_centroid, 1, L)
\* under the fixed one (a division by zero leaves the count open).
C12_CentroidCountRule ==
    result.op = "centroid_count" =>
        LET L == result.liked_count
            config == result.config
            min_samples == config.min_samples_per_centroid
        IN IF L < Max(1, min_samples) THEN result.centroid_count = 1
           ELSE IF config.dynamic_centroids
           THEN result.centroid_count =
                    Clamp(FloorScaled(L, config.centroid_scaling_factor), 1, L)
           ELSE min_samples # 0
                    => result.centroid_count = Clamp(L \div min_samples, 1, L)

\* C12 amended: as above, the fixed policy dividing by
\* max(1, min_samples_per_centroid).
C12_CentroidCountRuleGuardedDivisor ==
    result.op = "centroid_count" =>
        LET L == result.liked_count
            config == result.config
            min_samples == config.min_samples_per_centroid
        IN IF L < Max(1, min_samples) THEN result.centroid_count = 1
           ELSE IF config.dynamic_centroids
           THEN result.centroid_count =
                    Clamp(FloorScaled(L, config.centroid_scaling_factor), 1, L)
           ELSE result.centroid_count = Clamp(L \div Max(1, min_samples), 1, L)

\* a fixed-policy call past the threshold gave a count strictly between 1
\* and L
C12_Witness ==
    /\ result.op = "centroid_count"
    /\ ~result.config.dynamic_centroids
    /\ result.liked_count >= Max(1, result.config.min_samples_per_centroid)
    /\ result.centroid_count > 1
    /\ result.centroid_count < result.liked_count

\* C13: the number K of preference vectors built from L liked rows
\* satisfies 1 <= K <= max(1, L div 2), so K <= L and K = 1 when L = 1.
C13_PreferenceVectorCap ==
    result.op = "preference_vectors" =>
        LET L == Len(result.liked_matrix)
            K == Len(result.preference_vectors)
        IN /\ 1 <= K
           /\ K <= Max(1, L \div 2)
           /\ K <= L
           /\ L = 1 => K = 1

\* the cap was what limited K: the centroid count resolved for the
\* configuration is above L div 2 and below L, and K = L div 2 > 1
C13_Witness ==
    /\ result.op = "preference_vectors"
    /\ Len(result.preference_vectors) = Len(result.liked_matrix) \div 2
    /\ Len(result.preference_vectors) > 1
    /\ _determine_centroid_count(
           Len(result.liked_matrix), result.config.min_samples_per_centroid,
           result.config.dynamic_centroids, result.config.centroid_scaling_factor[1],
           result.config.centroid_scaling_factor[2]) > Len(result.liked_matrix) \div 2

----------------------------------------------------------------------------
(* Properties of repeated calls.                                           *)

\* Two consecutive calls of one recommender with the same arguments.
SameCallAgain ==
    /\ result.op = "recommend"
    /\ result'.op = "recommend"
    /\ result'.liked_games = result.liked_games
    /\ result'.num_results = result.num_results
    /\ result'.aggregation = result.aggregation
    /\ result'.random_state = result.random_state

\* C14: two calls with identical liked ids, requested count and run return
\* the same ranked list with the same scores, k-means included.
C14_SameCallSameRanking ==
    [][SameCallAgain => result'.ranked = result.ranked]_vars

\* C14, with a seed configured: a recommender whose random_state is an int
\* returns the same ranked list for the same call.
C14_SeededCallSameRanking ==
    [][(SameCallAgain /\ result.random_state # NoneValue)
         => result'.ranked = result.ranked]_vars

\* A call in which k-means produced two centres.
C14_Witness ==
    /\ result.op = "recommend"
    /\ result.outcome = "ok"
    /\ Len(result.preference_vectors) = 2
    /\ result.random_state # NoneValue

----------------------------------------------------------------------------
(* Properties of the explanation providers.                                *)

\* The references of the k-th explanation of the call in result.
ReferencesAt(k) == result.explanations[k].references[1]

\* Some liked game was compared with the k-th ranked item.
ComparisonSucceeded(k) ==
    \E i \in 1..Len(result.liked_games) :
        _similarity(embedding.rows, result.ranked[k].bgg_id, result.liked_games[i]) # NoneValue

\* C15: in every reference explanation each cited id is a supplied liked id,
\* there are at most max_references references, and one of them is positive
\* unless no comparison with a liked game succeeded.
C15_ReferenceExplanationShape ==
    result.op = "references" =>
        \A k \in 1..Len(result.explanations) :
            /\ \A r \in Range(ReferencesAt(k)) : r.bgg_id \in Range(result.liked_games)
            /\ Len(ReferencesAt(k)) <= result.max_references
            /\ ComparisonSucceeded(k) =>
                   \E r \in Range(ReferencesAt(k)) : r.influence = POSITIVE

\* A fourth-ranked weak item compared with three liked games under a cap of
\* two: the references are rotated, capped, and the last is forced negative.
C15_Witness ==
    /\ result.op = "references"
    /\ Len(result.explanations) = 4
    /\ result.max_references = 2
    /\ Len(result.liked_games) = 3
    /\ ComparisonSucceeded(4)
    /\ Len(ReferencesAt(4)) = 2
    /\ ReferencesAt(4)[2].influence = NEGATIVE

\* The features of the k-th explanation of the call in result.
FeaturesAt(k) == result.explanations[k].features[1]

\* The k-th ranked item is a boardgame with a mechanic, theme or genre.
CandidateHasTag(k) ==
    LET candidate == boardgame_map_get(result.boardgames, result.ranked[k].bgg_id)
    IN /\ candidate # NoneValue
       /\ \E label \in Range(candidate[1].mechanics) \cup Range(candidate[1].themes)
                        \cup Range(candidate[1].genre) : label.text # ""

\* C16: the feature explanation of a candidate with a tag has a positive
\* tag, whatever its rank and score.
C16_FeatureExplanationHasPositive ==
    result.op = "features" =>
        \A k \in 1..Len(result.explanations) :
            CandidateHasTag(k) =>
                \E f \in Range(FeaturesAt(k)) : f.influence = POSITIVE

\* C16, for the explanations the weak-item adjustment leaves alone: one tag,
\* or an item among the first four scoring at least 0.6 of the top score.
C16_PositiveUnlessWeakened ==
    result.op = "features" =>
        \A k \in 1..Len(result.explanations) :
            (/\ CandidateHasTag(k)
             /\ \/ Len(FeaturesAt(k)) = 1
                \/ (k <= 4 /\ 10 * result.ranked[k].score >= 6 * result.ranked[1].score))
                => \E f \in Range(FeaturesAt(k)) : f.influence = POSITIVE

----------------------------------------------------------------------------
(* Properties of finding the latest run.                                   *)

\* A call that looked for the latest run has just answered.
LatestRunSought ==
    /\ result' # result
    /\ result'.op \in {"load_embedding", "_load_embedding", "find_latest_run_identifier"}

\* name is the most recently modified directory holding both artifacts.
IsLatestCompletedRun(name) ==
    /\ CompletedRuns(embeddings_dir) # << >>
    /\ MaxByMtime(CompletedRuns(embeddings_dir)).name = name

\* C19: with no run named, the run loaded is the most recently modified
\* directory among those holding both the vectors table and the metadata
\* document, and a directory lacking either is never selected.
C19_LatestCompletedRunSelected ==
    [][LatestRunSought =>
         /\ result'.selected # NoneValue =>
                /\ EntryOf(embeddings_dir, result'.selected[1]).has_vectors
                /\ EntryOf(embeddings_dir, result'.selected[1]).has_metadata
         /\ result'.outcome = "ok" => IsLatestCompletedRun(result'.run_identifier)]_vars

\* C19, for the CLI: find_latest_run_identifier answers with the most
\* recently modified completed run, and exits when there is none.
C19_CliSelectsLatestCompletedRun ==
    [][(LatestRunSought /\ result'.op = "find_latest_run_identifier") =>
         IF CompletedRuns(embeddings_dir) = << >>
         THEN result'.outcome = "SystemExit"
         ELSE /\ result'.outcome = "ok"
              /\ IsLatestCompletedRun(result'.run_identifier)]_vars

\* The backend has loaded a run whose directory holds no metadata document
\* while an older completed run exists.
C19_IncompleteRunLoaded ==
    /\ result.op = "load_embedding"
    /\ result.outcome = "ok"
    /\ HasEntry(embeddings_dir, result.run_identifier)
    /\ ~EntryOf(embeddings_dir, result.run_identifier).has_metadata
    /\ CompletedRuns(embeddings_dir) # << >>

----------------------------------------------------------------------------
(* Properties of sessions.                                                 *)

\* The response in r answers a protected request.
ProtectedAnswered(r) == r.op \in {"create", "get", "delete_session"}

\* The response in r is a 401.
Answered401(r) ==
    \/ r.op \in {"create", "delete_session"} /\ r.status = 401
    \/ r.op = "get" /\ r.outcome = "HTTP_401"

\* C20: over any sequence of POST /session, DELETE /session and protected
\* requests, a protected request is answered 401 exactly when no session is
\* established; a session is established only by a POST /session for an
\* existing participant, and DELETE /session leaves none.
C20_SessionGuardsProtectedRequests ==
    [][/\ ProtectedAnswered(result') => (Answered401(result') <=> session = NoSession)
       /\ result'.op = "delete_session" => session' = NoSession
       /\ (session' # session /\ session' # NoSession) =>
              /\ result'.op = "post_session"
              /\ result'.status = 200
              /\ session'.participant_id[1] = result'.participant_id
              /\ result'.participant_id \in participants]_vars

\* A recommendation was created under a session, the session was ended, and
\* the next protected request was answered 401.
C20_Witness ==
    /\ result.op = "create"
    /\ result.status = 401
    /\ session = NoSession
    /\ \E r \in RecIds : recommendations[r] # NoRecord

----------------------------------------------------------------------------
(* Properties of saves over the aged cache.                                *)

\* the cache holds a row of the game that is not stale today
HasFreshEntry(bgg_id) ==
    /\ bgg_id \in DOMAIN bgg.cache
    /\ ~_is_stale(bgg.cache[bgg_id][1], bgg.now)

\* C21: while a save fetches, no live fetch runs for a selected game whose
\* cached row is fresh.
C21_NoLiveFetchOfFreshEntry ==
    pool.phase = "fetching"
       => \A k \in pool.running : ~HasFreshEntry(pool.res.selections[k].boardgame.id)

\* C21: a save that ends stores, for every selected game whose cached row is
\* fresh, the description of that row.
C21_FreshEntryUsed ==
    [][SaveEnds
          => \A k \in 1..Len(pool.res.selections) :
               LET game == pool.res.selections[k].boardgame
               IN (HasFreshEntry(game.id) /\ bgg.cache[game.id][1].description # NoneValue)
                     => CommittedRecord.recommendations[k].boardgame.description
                           = bgg.cache[game.id][1].description[1]]_vars

\* the stored boardgame of selection k and the cached row of its game, when a
\* save ends after the fetch of k failed or returned nothing
FetchFailedFor(k) ==
    /\ k \in 1..Len(pool.res.selections)
    /\ map_get(pool.metadata_map, pool.res.selections[k].boardgame.id) = NoneValue

\* C22, as stated: when the fetch of a selected game failed, the stored
\* description and image are those of the cached row if there is one, and
\* the boardgame's own otherwise.
C22_CachedEntryTakenWhole ==
    [][SaveEnds
          => \A k \in 1..MaxCached :
               FetchFailedFor(k)
                 => LET game == pool.res.selections[k].boardgame
                        stored == CommittedRecord.recommendations[k].boardgame
                    IN IF game.id \in DOMAIN bgg.cache
                       THEN /\ Some(stored.description) = bgg.cache[game.id][1].description
                            /\ Some(stored.image_url) = bgg.cache[game.id][1].image_url
                       ELSE /\ stored.description = game.description
                            /\ stored.image_url = game.image_url]_vars

\* C22: when the fetch of a selected game failed or returned nothing, the
\* save still ends by committing the record, and the stored description and
\* the stored image are each taken from the cached row, fresh or stale, when
\* the row has that field, and from the boardgame itself otherwise.
C22_FallbackPerField ==
    [][SaveEnds
          => /\ result'.op = "save" /\ result'.saved = pool.res
             /\ CommittedRecord # NoRecord
             /\ \A k \in 1..MaxCached :
                  FetchFailedFor(k)
                    => LET game == pool.res.selections[k].boardgame
                           stored == CommittedRecord.recommendations[k].boardgame
                           row == fetcher_get(bgg.cache, game.id)
                       IN /\ stored.description =
                               (IF row # NoneValue /\ row[1].description # NoneValue
                                THEN row[1].description[1] ELSE game.description)
                          /\ stored.image_url =
                               (IF row # NoneValue /\ row[1].image_url # NoneValue
                                THEN row[1].image_url[1] ELSE game.image_url)]_vars

\* a save has committed a record after the fetch of game 1 failed: the stale
\* row of game 1 held an image only, so the record carries the cached image
\* and the boardgame's own description
C22_Witness ==
    /\ result.op = "save"
    /\ pool = IdlePool
    /\ bgg.access_token /\ bgg.fetch_enabled
    /\ 1 \in DOMAIN bgg.cache
    /\ _is_stale(bgg.cache[1][1], bgg.now)
    /\ recommendations["rec-1"] # NoRecord
    /\ recommendations["rec-1"].recommendations[1].boardgame.description = "baseline"
    /\ recommendations["rec-1"].recommendations[1].boardgame.image_url = "cached.png"

----------------------------------------------------------------------------
(* Properties of the choice and polarity of references.                    *)

\* The similarity of liked game bgg_id to the k-th ranked item, a comparison
\* that succeeded.
SimilarityTo(k, bgg_id) == _similarity(embedding.rows, result.ranked[k].bgg_id, bgg_id)[1]

\* The liked games whose comparison with the k-th ranked item succeeded.
ComparedLiked(k) ==
    {g \in Range(result.liked_games) :
        _similarity(embedding.rows, result.ranked[k].bgg_id, g) # NoneValue}

\* C23: at every rank, the references of an item that was compared with a
\* liked game are the max_references liked games most similar to it, most
\* similar first: as many as the cap allows, in descending similarity, and
\* no liked game left out is more similar than one cited.
C23_ReferencesAreTopM ==
    result.op = "references" =>
        \A k \in 1..Len(result.explanations) :
            ComparisonSucceeded(k) =>
                LET refs == ReferencesAt(k)
                    cited == {refs[i].bgg_id : i \in 1..Len(refs)}
                IN /\ Len(refs) = Min(result.max_references, Cardinality(ComparedLiked(k)))
                   /\ cited \subseteq ComparedLiked(k)
                   /\ \A i, j \in 1..Len(refs) :
                        i < j => SimilarityTo(k, refs[i].bgg_id) >= SimilarityTo(k, refs[j].bgg_id)
                   /\ \A g \in ComparedLiked(k) \ cited : \A c \in cited :
                        SimilarityTo(k, g) <= SimilarityTo(k, c)

\* C23 for the first three ranks, where the sorted comparisons are not rotated
C23_TopMWithinFirstThree ==
    result.op = "references" =>
        \A k \in 1..Min(3, Len(result.explanations)) :
            ComparisonSucceeded(k) =>
                LET refs == ReferencesAt(k)
                    cited == {refs[i].bgg_id : i \in 1..Len(refs)}
                IN /\ Len(refs) = Min(result.max_references, Cardinality(ComparedLiked(k)))
                   /\ \A i, j \in 1..Len(refs) :
                        i < j => SimilarityTo(k, refs[i].bgg_id) >= SimilarityTo(k, refs[j].bgg_id)
                   /\ \A g \in ComparedLiked(k) \ cited : \A c \in cited :
                        SimilarityTo(k, g) <= SimilarityTo(k, c)

\* The k-th ranked item is a weak recommendation: rank 3 or later, counted
\* from 0, or a score below 0.7 of the top score.
WeakRecommendation(k) ==
    \/ k - 1 >= 3
    \/ (result.ranked[1].score > 0 /\ 10 * result.ranked[k].score < 7 * result.ranked[1].score)

\* C24, as stated: the last reference of a weak recommendation is negative,
\* whatever the number of references.
C24_WeakLastNegativeAnyLength ==
    result.op = "references" =>
        \A k \in 1..Len(result.explanations) :
            (WeakRecommendation(k) /\ ReferencesAt(k) # << >>)
                => ReferencesAt(k)[Len(ReferencesAt(k))].influence = NEGATIVE

\* C24: the last reference of a weak recommendation that was compared with a
\* liked game and has more than one reference is negative.
C24_WeakLastNegative ==
    result.op = "references" =>
        \A k \in 1..Len(result.explanations) :
            (WeakRecommendation(k) /\ ComparisonSucceeded(k) /\ Len(ReferencesAt(k)) > 1)
                => ReferencesAt(k)[Len(ReferencesAt(k))].influence = NEGATIVE

\* the second of two ranked items scores half the top score and cites two
\* liked games both as similar to it as can be: the second is negative
C24_Witness ==
    /\ result.op = "references"
    /\ Len(result.explanations) = 2
    /\ WeakRecommendation(2)
    /\ result.ranked[2].bgg_id = 4
    /\ Len(ReferencesAt(2)) = 2
    /\ SimilarityTo(2, ReferencesAt(2)[2].bgg_id) = SimilarityTo(2, ReferencesAt(2)[1].bgg_id)
    /\ ReferencesAt(2)[2].influence = NEGATIVE

----------------------------------------------------------------------------
(* Properties of the tags of feature explanations.                         *)

\* The boardgame of the k-th ranked item of the call in result.
CandidateAt(k) == boardgame_map_get(result.boardgames, result.ranked[k].bgg_id)[1]

\* The liked games of the call that the run holds.
HintLikedList == KnownIds(embedding.rows, result.liked_games)

\* The k-th explanation is that of a candidate compared against liked games
\* which neither adjustment changed: its tags are as the loop marked them.
MarkedAsReturned(k) ==
    /\ boardgame_map_get(result.boardgames, result.ranked[k].bgg_id) # NoneValue
    /\ HintLikedList # << >>
    /\ FeaturesAt(k) = marked_hints(embedding.rows, result.ranked[k], CandidateAt(k),
                                    HintLikedList, result.boardgames, result.max_features)

\* Some liked boardgame whose own similarity to the k-th ranked item is at
\* least 0.4 has the tag among its labels of that category.
TagOfCloseLiked(k, tag) ==
    \E g \in Range(HintLikedList) :
        /\ _similarity(embedding.rows, result.ranked[k].bgg_id, g) # NoneValue
        /\ SimilarityTo(k, g) >= 400
        /\ boardgame_map_get(result.boardgames, g) # NoneValue
        /\ LET liked_game == boardgame_map_get(result.boardgames, g)[1]
           IN tag.label \in {label.text : label \in Range(
                  IF tag.category = "mechanic" THEN liked_game.mechanics
                  ELSE IF tag.category = "theme" THEN liked_game.themes
                  ELSE liked_game.genre)}

\* The best similarity of the k-th ranked item to a liked game, 0 without one.
BestSimilarity(k) ==
    LET sims == SortedByScoreDesc(SimsOf(embedding.rows, result.ranked[k].bgg_id, HintLikedList))
    IN IF sims = << >> THEN 0 ELSE sims[1].score

\* C25: before the adjustments, a tag is positive exactly when a liked game
\* whose own similarity to the candidate is at least 0.4 has it; otherwise it
\* is negative when the candidate's best similarity to a liked game is below
\* 0.2, and neutral when it is not.
C25_TagPolarity ==
    result.op = "features" =>
        \A k \in 1..Len(result.explanations) :
            MarkedAsReturned(k) =>
                \A i \in 1..Len(FeaturesAt(k)) :
                    FeaturesAt(k)[i].influence =
                        (IF TagOfCloseLiked(k, FeaturesAt(k)[i]) THEN POSITIVE
                         ELSE IF BestSimilarity(k) < 200 THEN NEGATIVE ELSE NEUTRAL)

\* the candidate's tag is held only by a liked game at a right angle to it,
\* another liked game lies on the candidate, and the tag is returned positive
C25_PositiveThroughDistantLiked ==
    /\ result.op = "features"
    /\ Len(result.explanations) = 1
    /\ MarkedAsReturned(1)
    /\ FeaturesAt(1) # << >>
    /\ FeaturesAt(1)[1].influence = POSITIVE
    /\ ~TagOfCloseLiked(1, FeaturesAt(1)[1])

\* the rank of a category in the order mechanics, themes, genres
CategoryRank(category) ==
    IF category = "mechanic" THEN 1 ELSE IF category = "theme" THEN 2 ELSE 3

\* the candidate has a mechanic, a theme or a genre
Tagged(game) ==
    \E label \in Range(game.mechanics) \cup Range(game.themes) \cup Range(game.genre) :
        label.text # ""

\* C26, order and cap: the tags of a candidate's feature explanation come as
\* mechanics, then themes, then genres, the title standing in as a theme only
\* for an untagged candidate, and there are at most max_features of them.
C26_OrderAndCap ==
    result.op = "features" =>
        \A k \in 1..Len(result.explanations) :
            boardgame_map_get(result.boardgames, result.ranked[k].bgg_id) # NoneValue =>
                LET tags == FeaturesAt(k)
                IN /\ Len(tags) <= result.max_features
                   /\ \A i, j \in 1..Len(tags) :
                        i < j => CategoryRank(tags[i].category) <= CategoryRank(tags[j].category)
                   /\ Tagged(CandidateAt(k))
                        => \A i \in 1..Len(tags) : tags[i].label # CandidateAt(k).title.text
                   /\ ~Tagged(CandidateAt(k))
                        => tags = <<FeatureExplanation(CandidateAt(k).title.text, "theme",
                                                       tags[1].influence)>>

\* C26: the tags of a candidate's feature explanation are ordered and capped
\* as above and pairwise distinct as (label, category) pairs.
C26_DistinctTags ==
    result.op = "features" =>
        \A k \in 1..Len(result.explanations) :
            boardgame_map_get(result.boardgames, result.ranked[k].bgg_id) # NoneValue =>
                \A i, j \in 1..Len(FeaturesAt(k)) :
                    (i # j) => (FeaturesAt(k)[i].label # FeaturesAt(k)[j].label
                                \/ FeaturesAt(k)[i].category # FeaturesAt(k)[j].category)

----------------------------------------------------------------------------
(* Properties of the cache of loaded runs.                                 *)

\* Every Embeddings object there is: cached, just constructed, or returned.
ConstructedEmbeddings ==
    {_EMBEDDING_CACHE[run] : run \in DOMAIN _EMBEDDING_CACHE}
      \cup UNION {loaders[t].returned : t \in DOMAIN loaders}
      \cup {loaders[t].embedding[1] : t \in {u \in DOMAIN loaders : loaders[u].pc = "built"}}

\* C27: however the calls of load_embedding interleave, at most one index is
\* constructed for a run, so every caller of that run holds the same object.
C27_OneIndexPerRun ==
    \A a, b \in ConstructedEmbeddings : a.run_identifier = b.run_identifier => a = b

\* C27: an index published in the cache is never replaced.
C27_PublishedNeverReplaced ==
    [][\A run \in DOMAIN _EMBEDDING_CACHE :
          /\ run \in DOMAIN _EMBEDDING_CACHE'
          /\ _EMBEDDING_CACHE'[run] = _EMBEDDING_CACHE[run]]_vars

\* two threads have returned from load_embedding with different objects of
\* the run saved after startup
C27_TwoIndexesReturned ==
    /\ \A t \in Threads : loaders[t].pc = "outside"
    /\ \E a \in loaders["t1"].returned, b \in loaders["t2"].returned :
         /\ a.run_identifier = RunNameOf[2]
         /\ b.run_identifier = RunNameOf[2]
         /\ a # b

----------------------------------------------------------------------------
(* Properties of saved runs.                                               *)

\* C28: a training saves under a run id no saved run has, so no step changes
\* the vectors or the metadata of a run directory that is there.
C28_SavedRunsImmutable ==
    [][\A k \in 1..Len(embeddings_dir) :
          /\ k <= Len(embeddings_dir')
          /\ embeddings_dir'[k] = embeddings_dir[k]]_vars

\* C28 for trainings that end in different seconds: a training that ends in
\* a second no earlier training ended in leaves every saved run as it was.
C28_ImmutableAcrossSeconds ==
    [][~HasEntry(embeddings_dir, run_identifier_at(clock))
          => \A k \in 1..Len(embeddings_dir) :
               /\ k <= Len(embeddings_dir')
               /\ embeddings_dir'[k] = embeddings_dir[k]]_vars

\* the second of two trainings ended in the second the first ended in: one
\* run directory, written twice
C28_RunOverwritten ==
    /\ result.op = "train"
    /\ Len(embeddings_dir) = 1
    /\ embeddings_dir[1].name = result.run_identifier
    /\ embeddings_dir[1].mtime = 2

----------------------------------------------------------------------------
(* Properties of the pairing of selections with explanations.              *)

\* Both providers return one explanation per ranked item.
C29_OneExplanationPerRanked ==
    (result.op \in {"references", "features"} /\ result.outcome = "ok")
        => Len(result.explanations) = Len(result.ranked)

\* run_pipeline returns one selection per top candidate, in rank order.
C29_PipelinePairsTop ==
    (result.op = "run_pipeline" /\ result.outcome = "ok")
        => /\ Len(result.selections) = Len(result.top)
           /\ \A k \in 1..Len(result.top) :
                result.selections[k].boardgame = result.top[k].candidate

\* The ranks, from 1, of the ranked items that have a boardgame record.
KeptRanks ==
    {k \in 1..Len(result.ranked) :
        boardgame_map_get(result.boardgames, result.ranked[k].bgg_id) # NoneValue}

\* The rank of the i-th ranked item that has a boardgame record.
KeptRank(i) == CHOOSE k \in KeptRanks : Cardinality({j \in KeptRanks : j <= k}) = i

\* C29, as stated: there is one explanation per ranked item, and the
\* selections built from them are as many as the ranked items, each the
\* game at its rank with the explanation of that rank.
C29_OneSelectionPerRanked ==
    result.op = "from_ranked" =>
        /\ Len(result.explanations) = Len(result.ranked)
        /\ Len(result.selections) = Len(result.ranked)
        /\ \A k \in 1..Len(result.selections) :
             /\ result.selections[k].boardgame.id = result.ranked[k].bgg_id
             /\ result.selections[k].explanation = result.explanations[k]

\* C29: there is one explanation per ranked item, in rank order: that of an
\* item with a boardgame record has tags and that of an item without has
\* none.  The selections built from them are, in rank order, the ranked
\* items that have a boardgame record, each with the explanation of its own
\* rank.
C29_SelectionsPairedByRank ==
    result.op = "from_ranked" =>
        /\ Len(result.explanations) = Len(result.ranked)
        /\ \A k \in 1..Len(result.ranked) :
             (result.explanations[k].features[1] # << >>) <=> (k \in KeptRanks)
        /\ Len(result.selections) = Cardinality(KeptRanks)
        /\ \A i \in 1..Len(result.selections) :
             /\ result.selections[i].boardgame.id = result.ranked[KeptRank(i)].bgg_id
             /\ result.selections[i].explanation = result.explanations[KeptRank(i)]

\* of two ranked items the first has no boardgame record: the one selection
\* is the second item with the second explanation
C29_Witness ==
    /\ result.op = "from_ranked"
    /\ Len(result.ranked) = 2
    /\ KeptRanks = {2}
    /\ Len(result.selections) = 1
    /\ result.selections[1].boardgame.id = result.ranked[2].bgg_id
    /\ result.selections[1].explanation = result.explanations[2]
    /\ result.explanations[1] # result.explanations[2]
----------------------------------------------------------------------------
(* Properties of the candidate pool.                                       *)

\* the score the scorer gives a game of the run for the request's liked games
ScoreFor(bgg_id, liked_games) ==
    score_candidates(embedding.rows, KnownIds(embedding.rows, liked_games), <<bgg_id>>)[bgg_id]

\* the catalogue games that satisfy the play context, have an embedding and
\* are not liked
EligibleGames(request) ==
    {catalog[g] : g \in {h \in DOMAIN catalog :
        /\ h \in RunIds(embedding)
        /\ catalog[h] # NoGame
        /\ h \notin Range(request.liked_games)
        /\ FitsContext(catalog[h], request.play_context)}}

SelectedIds == {result.selections[k].boardgame.id : k \in 1..Len(result.selections)}

\* C30: the selections returned for a request are the N highest-scoring
\* eligible games of the whole catalogue: no catalogue game that satisfies the
\* play context, has an embedding and is not liked lies outside the returned
\* list with a strictly higher score than a returned game.
C30_TopOfWholeCatalog ==
    (result.op = "create" /\ result.status = 201) =>
        \A game \in EligibleGames(result.request) :
            game.id \notin SelectedIds =>
                \A bgg_id \in SelectedIds :
                    ScoreFor(game.id, result.request.liked_games)
                        <= ScoreFor(bgg_id, result.request.liked_games)

\* within the candidate limit the statement holds: whenever every game the
\* play context admits is in the candidate pool, no eligible game outside the
\* returned list outscores a returned one.
C30_TopOfPool ==
    (/\ result.op = "create"
     /\ result.status = 201
     /\ \A game \in EligibleGames(result.request) :
          \E k \in 1..Len(result.candidates) : result.candidates[k].id = game.id) =>
        \A game \in EligibleGames(result.request) :
            game.id \notin SelectedIds =>
                \A bgg_id \in SelectedIds :
                    ScoreFor(game.id, result.request.liked_games)
                        <= ScoreFor(bgg_id, result.request.liked_games)

\* a request was answered from a full pool while an eligible game lay beyond it
C30_EligibleBeyondPool ==
    /\ result.op = "create"
    /\ result.status = 201
    /\ Len(result.candidates) = candidate_limit_floor
    /\ \E game \in EligibleGames(result.request) :
         \A k \in 1..Len(result.candidates) : result.candidates[k].id # game.id

====
